---- MODULE Spec2Model ----
(***************************************************************************)
(* Model of the kkm domain-switch and fault-virtualization engine          *)
(* (src/kkm/kkm_kontext.c, src/kkm/kkm_idt.c, src/kkm/kkm_kontainer.c).    *)
(*                                                                         *)
(* 64-bit quantities that can exceed the model checker's integer range     *)
(* (addresses, rax, rdx, rip) are kept as three limbs <<t, m, o>> standing *)
(* for t * 2^40 + m * 2^20 + o, with arithmetic modulo 2^64.               *)
(***************************************************************************)
EXTENDS Integers, Sequences, FiniteSets, TLC

(***************************************************************************)
(* uint64_t arithmetic on limbs                                            *)
(***************************************************************************)
Limb == 2^20
TopLimb == 2^24

U64(t, m, o) == <<t, m, o>>

U64Norm(t, m, o) ==
    LET c1 == o \div Limb
        m1 == m + c1
        c2 == m1 \div Limb
    IN  <<(t + c2) % TopLimb, m1 % Limb, o % Limb>>

U64Add(a, b) == U64Norm(a[1] + b[1], a[2] + b[2], a[3] + b[3])

\* a - b modulo 2^64
U64Sub(a, b) ==
    LET o  == a[3] - b[3]
        b1 == IF o < 0 THEN 1 ELSE 0
        m  == a[2] - b[2] - b1
        b2 == IF m < 0 THEN 1 ELSE 0
        t  == a[1] - b[1] - b2
    IN  <<(t + TopLimb) % TopLimb, (m + Limb) % Limb, (o + Limb) % Limb>>

U64Scale(n, a) == U64Norm(n * a[1], n * a[2], n * a[3])

U64Lt(a, b) ==
    \/ a[1] < b[1]
    \/ a[1] = b[1] /\ a[2] < b[2]
    \/ a[1] = b[1] /\ a[2] = b[2] /\ a[3] < b[3]

U64Ge(a, b) == ~U64Lt(a, b)

U64Zero == <<0, 0, 0>>
U64One == <<0, 0, 1>>
U64Max == <<TopLimb - 1, Limb - 1, Limb - 1>>

\* (uint32_t) x : the low 32 bits, still as limbs
U64Low32(x) == <<0, x[2] % 4096, x[3]>>

\* x & 0xFFFF : fits an integer
U64Low16(x) == x[3] % 65536

(***************************************************************************)
(* Address-space layout, kkm_kontext.c:518-549                             *)
(***************************************************************************)
KKM_MIB == U64(0, 1, 0)
KKM_GIB == U64(0, 1024, 0)
KKM_TIB == U64(1, 0, 0)

KKM_GUEST_MEM_START_VA == U64Scale(2, KKM_MIB)
KKM_GUEST_MAX_PHYS_MEM == U64Scale(512, KKM_GIB)

KKM_GUEST_MEM_TOP_VA == U64Sub(U64Scale(128, KKM_TIB), U64Scale(2, KKM_MIB))
KKM_GUEST_VA_OFFSET ==
    U64Sub(KKM_GUEST_MEM_TOP_VA,
           U64Sub(KKM_GUEST_MAX_PHYS_MEM, U64Scale(2, KKM_MIB)))

\* 0x100000000000
KKM_KM_USER_MEM_BASE == U64(16, 0, 0)

KKM_GUEST_VVAR_VDSO_BASE_VA == U64Add(KKM_GUEST_MEM_TOP_VA, U64Scale(1, KKM_MIB))

PAGE_SIZE == 4096

(***************************************************************************)
(* kkm_guest_va_to_monitor_va: the result is [ret_val, monitor_va]; slot   *)
(* is kkm->mem_slot[KKM_KM_RSRV_VDSOSLOT] = [used, memory_size,            *)
(* userspace_addr].                                                        *)
(***************************************************************************)
kkm_guest_va_to_monitor_va_LowOff(slot, guest_va) ==
    IF U64Ge(guest_va, KKM_GUEST_MEM_START_VA) /\ U64Lt(guest_va, KKM_GUEST_MAX_PHYS_MEM)
    THEN [ret_val |-> TRUE,
          monitor_va |-> U64Add(KKM_KM_USER_MEM_BASE, U64Sub(guest_va, KKM_GUEST_MEM_START_VA))]
    ELSE IF U64Ge(guest_va, KKM_GUEST_VA_OFFSET) /\ U64Lt(guest_va, KKM_GUEST_MEM_TOP_VA)
    THEN [ret_val |-> TRUE,
          monitor_va |-> U64Add(KKM_KM_USER_MEM_BASE, U64Sub(guest_va, KKM_GUEST_VA_OFFSET))]
    ELSE IF /\ slot.used = TRUE
            /\ U64Ge(guest_va, KKM_GUEST_VVAR_VDSO_BASE_VA)
            /\ U64Lt(guest_va, U64Add(KKM_GUEST_VVAR_VDSO_BASE_VA, slot.memory_size))
    THEN [ret_val |-> TRUE,
          monitor_va |-> U64Add(U64Sub(guest_va, KKM_GUEST_VVAR_VDSO_BASE_VA),
                                slot.userspace_addr)]
    ELSE [ret_val |-> FALSE, monitor_va |-> U64Zero]

kkm_guest_va_to_monitor_va_HighNoOff(slot, guest_va) ==
    IF U64Ge(guest_va, KKM_GUEST_MEM_START_VA) /\ U64Lt(guest_va, KKM_GUEST_MAX_PHYS_MEM)
    THEN [ret_val |-> TRUE, monitor_va |-> U64Add(KKM_KM_USER_MEM_BASE, guest_va)]
    ELSE IF U64Ge(guest_va, KKM_GUEST_VA_OFFSET) /\ U64Lt(guest_va, KKM_GUEST_MEM_TOP_VA)
    THEN [ret_val |-> TRUE, monitor_va |-> U64Add(KKM_KM_USER_MEM_BASE, guest_va)]
    ELSE IF /\ slot.used = TRUE
            /\ U64Ge(guest_va, KKM_GUEST_VVAR_VDSO_BASE_VA)
            /\ U64Lt(guest_va, U64Add(KKM_GUEST_VVAR_VDSO_BASE_VA, slot.memory_size))
    THEN [ret_val |-> TRUE,
          monitor_va |-> U64Add(U64Sub(guest_va, KKM_GUEST_VVAR_VDSO_BASE_VA),
                                slot.userspace_addr)]
    ELSE [ret_val |-> FALSE, monitor_va |-> U64Zero]

\* the translator without the initial *monitor_va = 0
kkm_guest_va_to_monitor_va_NoZero(slot, guest_va) ==
    IF U64Ge(guest_va, KKM_GUEST_MEM_START_VA) /\ U64Lt(guest_va, KKM_GUEST_MAX_PHYS_MEM)
    THEN [ret_val |-> TRUE, monitor_va |-> U64Add(KKM_KM_USER_MEM_BASE, guest_va)]
    ELSE IF U64Ge(guest_va, KKM_GUEST_VA_OFFSET) /\ U64Lt(guest_va, KKM_GUEST_MEM_TOP_VA)
    THEN [ret_val |-> TRUE,
          monitor_va |-> U64Add(KKM_KM_USER_MEM_BASE, U64Sub(guest_va, KKM_GUEST_VA_OFFSET))]
    ELSE IF /\ slot.used = TRUE
            /\ U64Ge(guest_va, KKM_GUEST_VVAR_VDSO_BASE_VA)
            /\ U64Lt(guest_va, U64Add(KKM_GUEST_VVAR_VDSO_BASE_VA, slot.memory_size))
    THEN [ret_val |-> TRUE,
          monitor_va |-> U64Add(U64Sub(guest_va, KKM_GUEST_VVAR_VDSO_BASE_VA),
                                slot.userspace_addr)]
    ELSE [ret_val |-> FALSE, monitor_va |-> guest_va]

\* the translator without the validity test on the reserved slot
kkm_guest_va_to_monitor_va_IgnoreUsed(slot, guest_va) ==
    IF U64Ge(guest_va, KKM_GUEST_MEM_START_VA) /\ U64Lt(guest_va, KKM_GUEST_MAX_PHYS_MEM)
    THEN [ret_val |-> TRUE, monitor_va |-> U64Add(KKM_KM_USER_MEM_BASE, guest_va)]
    ELSE IF U64Ge(guest_va, KKM_GUEST_VA_OFFSET) /\ U64Lt(guest_va, KKM_GUEST_MEM_TOP_VA)
    THEN [ret_val |-> TRUE,
          monitor_va |-> U64Add(KKM_KM_USER_MEM_BASE, U64Sub(guest_va, KKM_GUEST_VA_OFFSET))]
    ELSE IF /\ U64Ge(guest_va, KKM_GUEST_VVAR_VDSO_BASE_VA)
            /\ U64Lt(guest_va, U64Add(KKM_GUEST_VVAR_VDSO_BASE_VA, slot.memory_size))
    THEN [ret_val |-> TRUE,
          monitor_va |-> U64Add(U64Sub(guest_va, KKM_GUEST_VVAR_VDSO_BASE_VA),
                                slot.userspace_addr)]
    ELSE [ret_val |-> FALSE, monitor_va |-> U64Zero]

kkm_guest_va_to_monitor_va(slot, guest_va) ==
    IF U64Ge(guest_va, KKM_GUEST_MEM_START_VA) /\ U64Lt(guest_va, KKM_GUEST_MAX_PHYS_MEM)
    THEN [ret_val |-> TRUE, monitor_va |-> U64Add(KKM_KM_USER_MEM_BASE, guest_va)]
    ELSE IF U64Ge(guest_va, KKM_GUEST_VA_OFFSET) /\ U64Lt(guest_va, KKM_GUEST_MEM_TOP_VA)
    THEN [ret_val |-> TRUE,
          monitor_va |-> U64Add(KKM_KM_USER_MEM_BASE, U64Sub(guest_va, KKM_GUEST_VA_OFFSET))]
    ELSE IF /\ slot.used = TRUE
            /\ U64Ge(guest_va, KKM_GUEST_VVAR_VDSO_BASE_VA)
            /\ U64Lt(guest_va, U64Add(KKM_GUEST_VVAR_VDSO_BASE_VA, slot.memory_size))
    THEN [ret_val |-> TRUE,
          monitor_va |-> U64Add(U64Sub(guest_va, KKM_GUEST_VVAR_VDSO_BASE_VA),
                                slot.userspace_addr)]
    ELSE [ret_val |-> FALSE, monitor_va |-> U64Zero]


(***************************************************************************)
(* Program constants                                                       *)
(***************************************************************************)
X86_TRAP_GP == 13
X86_TRAP_PF == 14
X86_PF_WRITE == 2
X86_PF_USER == 4
EFAULT == 14
EOPNOTSUPP == 95
X86_EFLAGS_IF == 512
X86_EFLAGS_IOPL == 12288
X86_EFLAGS_RF == 65536
KERNEL_DS == 24
USER_DS == 43
USER_CS == 51
KKM_OUT_OPCODE == 239
KKM_KONTEXT_FAULT_PROCESS_DONE == 1
KKM_EXIT_UNKNOWN == 0
KKM_EXIT_IO == 2
KKM_EXIT_IO_OUT == 1

\* symbolic machine values
NULL == 0
REDZONE_DATA == 165
NativeIdtDesc == 300
GuestIdtDesc == 301
GuestKernelPa == 200
GuestPayloadPa == 201
GuestSyscallEntry == 450
KxGuestAreaSp0 == 650
GuestFsBase == 750

(***************************************************************************)
(* Bounds of the model                                                     *)
(***************************************************************************)
NCpu == 2
NKontext == 2
MaxTraps == 2
MaxEntries == 2

CPUS == 1..NCpu
KONTEXTS == 1..NKontext

\* bit tests and updates on an rflags value
HasBits(x, mask) == (x \div mask) % 2 = 1
ClearIf(x) == IF (x \div X86_EFLAGS_IF) % 2 = 1 THEN x - X86_EFLAGS_IF ELSE x
ClearIopl(x) == x - ((x \div 4096) % 4) * 4096
SetRf(x) == IF (x \div X86_EFLAGS_RF) % 2 = 1 THEN x ELSE x + X86_EFLAGS_RF

VARIABLES
    cpu,              \* per core: the architectural registers and kernel per-cpu state
    pc,               \* per core: position in enter_guest / enter_payload / return_to_host
    arg,              \* per core: the kkm_kontext argument of the running enter_guest
    current_kontext,  \* DEFINE_PER_CPU(struct kkm_kontext *, current_kontext)
    kx_area,          \* per core: the guest area bound into the per-core kx window
    kontext,          \* per kontext: struct kkm_kontext (saved native state)
    ga,               \* per kontext: struct kkm_guest_area
    kkm_run,          \* per kontext: mmap_area[0], the exit record
    io_data,          \* per kontext: mmap_area[1], data_address[0]
    mem_slot,         \* kkm->mem_slot[KKM_KM_RSRV_VDSOSLOT]
    ret_val,          \* per core: what the last enter_guest returned
    hist,             \* per core: history kept for stating the properties
    ntraps,           \* traps taken, bounded by MaxTraps
    nentries,         \* enter_guest calls made, bounded by MaxEntries
    tr,               \* the translator applied to one input (specification SpecTr)
    mm                \* struct kkm, the kontexts' guest-area references and the pages held

vars == <<cpu, pc, arg, current_kontext, kx_area, kontext, ga, kkm_run, io_data,
          mem_slot, ret_val, hist, ntraps, nentries, tr, mm>>

(***************************************************************************)
(* Fault emulators.  env is what the monitor's memory does to the probe:   *)
(* [rd_ok, rd_byte, wr_ok].  The result carries the updated guest area,    *)
(* exit record and data page and the accesses made, in order.              *)
(***************************************************************************)
\* copy_from_user(ga->instruction_decode, addr, 1): a failed copy zero-fills
CopyFromUser(g, env) ==
    [g EXCEPT !.instruction_decode0 = IF env.rd_ok THEN env.rd_byte ELSE 0]

ReadAccess(addr, env) == [op |-> "read", addr |-> addr, ok |-> env.rd_ok, byte |-> env.rd_byte]
WriteAccess(addr, byte, env) == [op |-> "write", addr |-> addr, ok |-> env.wr_ok, byte |-> byte]

kkm_process_general_protection_FailOnMismatch(g, run, data, slot, env) ==
    LET t == kkm_guest_va_to_monitor_va(slot, g.trap_rip)
        g1 == CopyFromUser(g, env)
    IN  IF ~t.ret_val
        THEN [ret_val |-> -EFAULT, ga |-> g, kkm_run |-> run, io_data |-> data, acc |-> <<>>]
        ELSE IF ~env.rd_ok
        THEN [ret_val |-> -EFAULT, ga |-> g1, kkm_run |-> run, io_data |-> data,
              acc |-> <<ReadAccess(t.monitor_va, env)>>]
        ELSE IF g1.instruction_decode0 = KKM_OUT_OPCODE
        THEN [ret_val |-> 0,
              ga |-> [g1 EXCEPT !.regs_rip = U64Add(g1.regs_rip, U64One)],
              kkm_run |-> [exit_reason |-> KKM_EXIT_IO,
                           io_direction |-> KKM_EXIT_IO_OUT,
                           io_size |-> 4,
                           io_port |-> U64Low16(g1.regs_rdx),
                           io_count |-> 1,
                           io_data_offset |-> PAGE_SIZE],
              io_data |-> U64Low32(g1.regs_rax),
              acc |-> <<ReadAccess(t.monitor_va, env)>>]
        ELSE [ret_val |-> -EOPNOTSUPP, ga |-> g1, kkm_run |-> run, io_data |-> data,
              acc |-> <<ReadAccess(t.monitor_va, env)>>]

kkm_process_general_protection_NoTrunc(g, run, data, slot, env) ==
    LET t == kkm_guest_va_to_monitor_va(slot, g.trap_rip)
        g1 == CopyFromUser(g, env)
    IN  IF ~t.ret_val
        THEN [ret_val |-> -EFAULT, ga |-> g, kkm_run |-> run, io_data |-> data, acc |-> <<>>]
        ELSE IF ~env.rd_ok
        THEN [ret_val |-> -EFAULT, ga |-> g1, kkm_run |-> run, io_data |-> data,
              acc |-> <<ReadAccess(t.monitor_va, env)>>]
        ELSE IF g1.instruction_decode0 = KKM_OUT_OPCODE
        THEN [ret_val |-> 0,
              ga |-> [g1 EXCEPT !.regs_rip = U64Add(g1.regs_rip, U64One)],
              kkm_run |-> [exit_reason |-> KKM_EXIT_IO,
                           io_direction |-> KKM_EXIT_IO_OUT,
                           io_size |-> 4,
                           io_port |-> g1.regs_rdx[3],
                           io_count |-> 1,
                           io_data_offset |-> PAGE_SIZE],
              io_data |-> g1.regs_rax,
              acc |-> <<ReadAccess(t.monitor_va, env)>>]
        ELSE [ret_val |-> 0, ga |-> g1, kkm_run |-> run, io_data |-> data,
              acc |-> <<ReadAccess(t.monitor_va, env)>>]

\* the general-protection emulator with the rip adjustment outside the
\* opcode test
kkm_process_general_protection_AlwaysAdvance(g, run, data, slot, env) ==
    LET t == kkm_guest_va_to_monitor_va(slot, g.trap_rip)
        g1 == CopyFromUser(g, env)
    IN  IF ~t.ret_val
        THEN [ret_val |-> -EFAULT, ga |-> g, kkm_run |-> run, io_data |-> data, acc |-> <<>>]
        ELSE IF ~env.rd_ok
        THEN [ret_val |-> -EFAULT, ga |-> g1, kkm_run |-> run, io_data |-> data,
              acc |-> <<ReadAccess(t.monitor_va, env)>>]
        ELSE IF g1.instruction_decode0 = KKM_OUT_OPCODE
        THEN [ret_val |-> 0,
              ga |-> [g1 EXCEPT !.regs_rip = U64Add(g1.regs_rip, U64One)],
              kkm_run |-> [exit_reason |-> KKM_EXIT_IO,
                           io_direction |-> KKM_EXIT_IO_OUT,
                           io_size |-> 4,
                           io_port |-> U64Low16(g1.regs_rdx),
                           io_count |-> 1,
                           io_data_offset |-> PAGE_SIZE],
              io_data |-> U64Low32(g1.regs_rax),
              acc |-> <<ReadAccess(t.monitor_va, env)>>]
        ELSE [ret_val |-> 0,
              ga |-> [g1 EXCEPT !.regs_rip = U64Add(g1.regs_rip, U64One)],
              kkm_run |-> run, io_data |-> data,
              acc |-> <<ReadAccess(t.monitor_va, env)>>]

kkm_process_general_protection(g, run, data, slot, env) ==
    LET t == kkm_guest_va_to_monitor_va(slot, g.trap_rip)
        g1 == CopyFromUser(g, env)
    IN  IF ~t.ret_val
        THEN [ret_val |-> -EFAULT, ga |-> g, kkm_run |-> run, io_data |-> data, acc |-> <<>>]
        ELSE IF ~env.rd_ok
        THEN [ret_val |-> -EFAULT, ga |-> g1, kkm_run |-> run, io_data |-> data,
              acc |-> <<ReadAccess(t.monitor_va, env)>>]
        ELSE IF g1.instruction_decode0 = KKM_OUT_OPCODE
        THEN [ret_val |-> 0,
              ga |-> [g1 EXCEPT !.regs_rip = U64Add(g1.regs_rip, U64One)],
              kkm_run |-> [exit_reason |-> KKM_EXIT_IO,
                           io_direction |-> KKM_EXIT_IO_OUT,
                           io_size |-> 4,
                           io_port |-> U64Low16(g1.regs_rdx),
                           io_count |-> 1,
                           io_data_offset |-> PAGE_SIZE],
              io_data |-> U64Low32(g1.regs_rax),
              acc |-> <<ReadAccess(t.monitor_va, env)>>]
        ELSE [ret_val |-> 0, ga |-> g1, kkm_run |-> run, io_data |-> data,
              acc |-> <<ReadAccess(t.monitor_va, env)>>]

kkm_process_page_fault_AlwaysWrite(g, run, data, slot, env) ==
    LET t == kkm_guest_va_to_monitor_va(slot, g.sregs_cr2)
        g1 == CopyFromUser(g, env)
        rd == ReadAccess(t.monitor_va, env)
        wr == WriteAccess(t.monitor_va, g1.instruction_decode0, env)
    IN  IF ~t.ret_val
        THEN [ret_val |-> -EFAULT, ga |-> g, kkm_run |-> run, io_data |-> data, acc |-> <<>>]
        ELSE IF ~HasBits(g.trap_error, X86_PF_USER)
        THEN [ret_val |-> 0, ga |-> g, kkm_run |-> run, io_data |-> data, acc |-> <<>>]
        ELSE IF ~env.rd_ok
        THEN [ret_val |-> -EFAULT, ga |-> g1, kkm_run |-> run, io_data |-> data, acc |-> <<rd>>]
        ELSE IF ~env.wr_ok
        THEN [ret_val |-> -EFAULT, ga |-> g1, kkm_run |-> run, io_data |-> data,
              acc |-> <<rd, wr>>]
        ELSE [ret_val |-> KKM_KONTEXT_FAULT_PROCESS_DONE, ga |-> g1, kkm_run |-> run,
              io_data |-> data, acc |-> <<rd, wr>>]

\* the page-fault emulator probing whatever the USER bit says
kkm_process_page_fault_ProbeSupervisor(g, run, data, slot, env) ==
    LET error_code == g.trap_error
        t == kkm_guest_va_to_monitor_va(slot, g.sregs_cr2)
        g1 == CopyFromUser(g, env)
        rd == ReadAccess(t.monitor_va, env)
        wr == WriteAccess(t.monitor_va, g1.instruction_decode0, env)
    IN  IF ~t.ret_val
        THEN [ret_val |-> -EFAULT, ga |-> g, kkm_run |-> run, io_data |-> data, acc |-> <<>>]
        ELSE IF ~env.rd_ok
        THEN [ret_val |-> -EFAULT, ga |-> g1, kkm_run |-> run, io_data |-> data, acc |-> <<rd>>]
        ELSE IF HasBits(error_code, X86_PF_WRITE) /\ ~env.wr_ok
        THEN [ret_val |-> -EFAULT, ga |-> g1, kkm_run |-> run, io_data |-> data,
              acc |-> <<rd, wr>>]
        ELSE [ret_val |-> KKM_KONTEXT_FAULT_PROCESS_DONE, ga |-> g1, kkm_run |-> run,
              io_data |-> data,
              acc |-> IF HasBits(error_code, X86_PF_WRITE) THEN <<rd, wr>> ELSE <<rd>>]

\* the page-fault emulator without the test of copy_to_user's result
kkm_process_page_fault_IgnoreWriteFail(g, run, data, slot, env) ==
    LET error_code == g.trap_error
        t == kkm_guest_va_to_monitor_va(slot, g.sregs_cr2)
        g1 == CopyFromUser(g, env)
        rd == ReadAccess(t.monitor_va, env)
        wr == WriteAccess(t.monitor_va, g1.instruction_decode0, env)
    IN  IF ~t.ret_val
        THEN [ret_val |-> -EFAULT, ga |-> g, kkm_run |-> run, io_data |-> data, acc |-> <<>>]
        ELSE IF ~HasBits(error_code, X86_PF_USER)
        THEN [ret_val |-> 0, ga |-> g, kkm_run |-> run, io_data |-> data, acc |-> <<>>]
        ELSE IF ~env.rd_ok
        THEN [ret_val |-> -EFAULT, ga |-> g1, kkm_run |-> run, io_data |-> data, acc |-> <<rd>>]
        ELSE [ret_val |-> KKM_KONTEXT_FAULT_PROCESS_DONE, ga |-> g1, kkm_run |-> run,
              io_data |-> data,
              acc |-> IF HasBits(error_code, X86_PF_WRITE) THEN <<rd, wr>> ELSE <<rd>>]

kkm_process_page_fault(g, run, data, slot, env) ==
    LET error_code == g.trap_error
        t == kkm_guest_va_to_monitor_va(slot, g.sregs_cr2)
        g1 == CopyFromUser(g, env)
        rd == ReadAccess(t.monitor_va, env)
        wr == WriteAccess(t.monitor_va, g1.instruction_decode0, env)
    IN  IF ~t.ret_val
        THEN [ret_val |-> -EFAULT, ga |-> g, kkm_run |-> run, io_data |-> data, acc |-> <<>>]
        ELSE IF ~HasBits(error_code, X86_PF_USER)
        THEN [ret_val |-> 0, ga |-> g, kkm_run |-> run, io_data |-> data, acc |-> <<>>]
        ELSE IF ~env.rd_ok
        THEN [ret_val |-> -EFAULT, ga |-> g1, kkm_run |-> run, io_data |-> data, acc |-> <<rd>>]
        ELSE IF HasBits(error_code, X86_PF_WRITE) /\ ~env.wr_ok
        THEN [ret_val |-> -EFAULT, ga |-> g1, kkm_run |-> run, io_data |-> data,
              acc |-> <<rd, wr>>]
        ELSE [ret_val |-> KKM_KONTEXT_FAULT_PROCESS_DONE, ga |-> g1, kkm_run |-> run,
              io_data |-> data,
              acc |-> IF HasBits(error_code, X86_PF_WRITE) THEN <<rd, wr>> ELSE <<rd>>]

\* kkm_process_intr with the default case resuming the guest
kkm_process_intr_ResumeDefault(g, run, data, slot, env) ==
    LET run0 == [run EXCEPT !.exit_reason = KKM_EXIT_UNKNOWN]
    IN  IF g.kkm_intr_no = X86_TRAP_GP
        THEN kkm_process_general_protection(g, run0, data, slot, env)
        ELSE IF g.kkm_intr_no = X86_TRAP_PF
        THEN kkm_process_page_fault(g, run0, data, slot, env)
        ELSE [ret_val |-> KKM_KONTEXT_FAULT_PROCESS_DONE, ga |-> g, kkm_run |-> run0,
              io_data |-> data, acc |-> <<>>]

\* kkm_process_intr without the reset of the exit reason
kkm_process_intr_NoReset(g, run, data, slot, env) ==
    IF g.kkm_intr_no = X86_TRAP_GP
    THEN kkm_process_general_protection(g, run, data, slot, env)
    ELSE IF g.kkm_intr_no = X86_TRAP_PF
    THEN kkm_process_page_fault(g, run, data, slot, env)
    ELSE [ret_val |-> -EOPNOTSUPP, ga |-> g, kkm_run |-> run, io_data |-> data,
          acc |-> <<>>]

kkm_process_intr(g, run, data, slot, env) ==
    LET run0 == [run EXCEPT !.exit_reason = KKM_EXIT_UNKNOWN]
    IN  IF g.kkm_intr_no = X86_TRAP_GP
        THEN kkm_process_general_protection(g, run0, data, slot, env)
        ELSE IF g.kkm_intr_no = X86_TRAP_PF
        THEN kkm_process_page_fault(g, run0, data, slot, env)
        ELSE [ret_val |-> -EOPNOTSUPP, ga |-> g, kkm_run |-> run0, io_data |-> data,
              acc |-> <<>>]


(***************************************************************************)
(* Initialization and teardown: kkm_kontainer_init, kkm_kontainer_cleanup, *)
(* kkm_kontext_init, kkm_kontext_cleanup.  heap is the set of page frames  *)
(* held; a virtual address is the number of its frame.                     *)
(***************************************************************************)
ENOMEM == 12
KKM_GUEST_AREA_PAGES == 2
PhysBase == 4096
MaxOps == 3

virt_to_phys(va) == va + PhysBase

\* the lowest run of n free frames
FreeBase(heap, n) ==
    CHOOSE b \in 1..(n * Cardinality(heap) + 1) :
        /\ \A i \in 0..(n - 1) : b + i \notin heap
        /\ \A c \in 1..(b - 1) : \E i \in 0..(n - 1) : c + i \in heap

\* kkm_mm_allocate_pages: n contiguous pages or -ENOMEM with a null page
kkm_mm_allocate_pages(heap, n, ok) ==
    IF ok
    THEN LET b == FreeBase(heap, n)
         IN  [ret_val |-> 0, page |-> b, va |-> b, pa |-> virt_to_phys(b),
              heap |-> heap \cup b..(b + n - 1)]
    ELSE [ret_val |-> -ENOMEM, page |-> NULL, va |-> NULL, pa |-> 0, heap |-> heap]

kkm_mm_allocate_page(heap, ok) == kkm_mm_allocate_pages(heap, 1, ok)

\* free_page(addr): releases the one page at addr
free_page(heap, addr) == heap \ {addr}

\* a zeroed struct kkm, as far as the initializer touches it
KkmZero ==
    [guest_kernel_page |-> NULL, guest_kernel |-> 0, guest_kernel_pa |-> 0,
     guest_payload_page |-> NULL, guest_payload |-> 0, guest_payload_pa |-> 0,
     idt_page |-> NULL, idt |-> NULL, idt_gates |-> FALSE]

\* a zeroed struct kkm_kontext, as far as the initializer touches it
KxZero ==
    [guest_area_page |-> NULL, guest_area |-> NULL,
     guest_area_page0_pa |-> 0, guest_area_page1_pa |-> 0]

\* the result is [kkm, heap]
kkm_kontainer_cleanup(K, heap) ==
    LET K1 == IF K.guest_kernel_page # NULL
              THEN [K EXCEPT !.guest_kernel_page = NULL, !.guest_kernel = 0]
              ELSE K
        h1 == IF K.guest_kernel_page # NULL THEN free_page(heap, K.guest_kernel) ELSE heap
        K2 == IF K1.guest_payload_page # NULL
              THEN [K1 EXCEPT !.guest_payload_page = NULL, !.guest_payload = 0]
              ELSE K1
        h2 == IF K1.guest_payload_page # NULL THEN free_page(h1, K1.guest_payload) ELSE h1
        K3 == IF K2.idt_page # NULL
              THEN [K2 EXCEPT !.idt_page = NULL, !.idt = NULL, !.idt_gates = FALSE]
              ELSE K2
        h3 == IF K2.idt_page # NULL THEN free_page(h2, K2.idt) ELSE h2
    IN  [kkm |-> K3, heap |-> h3]

\* the three allocations of kkm_kontainer_init; fail_at is the allocation
\* that fails (0: none), cleanup is whether the error label calls
\* kkm_kontainer_cleanup.  The result is [ret_val, kkm, heap].
KontainerInitBody(K, heap, fail_at, cleanup) ==
    LET a1 == kkm_mm_allocate_page(heap, fail_at # 1)
        K1 == IF a1.ret_val = 0
              THEN [K EXCEPT !.guest_kernel_page = a1.page, !.guest_kernel = a1.va,
                             !.guest_kernel_pa = a1.pa]
              ELSE [K EXCEPT !.guest_kernel_page = a1.page]
        a2 == kkm_mm_allocate_page(a1.heap, fail_at # 2)
        K2 == IF a2.ret_val = 0
              THEN [K1 EXCEPT !.guest_payload_page = a2.page, !.guest_payload = a2.va,
                              !.guest_payload_pa = a2.pa]
              ELSE [K1 EXCEPT !.guest_payload_page = a2.page]
        a3 == kkm_mm_allocate_page(a2.heap, fail_at # 3)
        K3 == IF a3.ret_val = 0
              THEN [K2 EXCEPT !.idt_page = a3.page, !.idt = a3.va, !.idt_gates = TRUE]
              ELSE [K2 EXCEPT !.idt_page = a3.page]
        fail(r, Kx, h) == LET c == IF cleanup THEN kkm_kontainer_cleanup(Kx, h)
                                   ELSE [kkm |-> Kx, heap |-> h]
                          IN  [ret_val |-> r, kkm |-> c.kkm, heap |-> c.heap]
    IN  IF a1.ret_val # 0 THEN fail(a1.ret_val, K1, a1.heap)
        ELSE IF a2.ret_val # 0 THEN fail(a2.ret_val, K2, a2.heap)
        ELSE IF a3.ret_val # 0 THEN fail(a3.ret_val, K3, a3.heap)
        ELSE [ret_val |-> 0, kkm |-> K3, heap |-> a3.heap]

\* kkm_kontainer_init whose error label returns without the cleanup
kkm_kontainer_init_NoCleanup(K, heap, fail_at) ==
    KontainerInitBody(K, heap, fail_at, FALSE)

kkm_kontainer_init(K, heap, fail_at) ==
    KontainerInitBody(K, heap, fail_at, TRUE)

\* the result is [kx, heap]
kkm_kontext_cleanup(X, heap) ==
    IF X.guest_area_page # NULL
    THEN [kx |-> [X EXCEPT !.guest_area_page = NULL, !.guest_area = NULL],
          heap |-> free_page(heap, X.guest_area)]
    ELSE [kx |-> X, heap |-> heap]

\* the result is [ret_val, kx, heap]; on success the caller of the operator
\* also initializes the redzones and the back pointer of the guest area
kkm_kontext_init(X, heap, ok) ==
    LET a == kkm_mm_allocate_pages(heap, KKM_GUEST_AREA_PAGES, ok)
        X1 == IF a.ret_val = 0
              THEN [X EXCEPT !.guest_area_page = a.page, !.guest_area = a.va]
              ELSE [X EXCEPT !.guest_area_page = a.page]
    IN  IF a.ret_val # 0
        THEN LET c == kkm_kontext_cleanup(X1, a.heap)
             IN  [ret_val |-> a.ret_val, kx |-> c.kx, heap |-> c.heap]
        ELSE [ret_val |-> 0,
              kx |-> [X1 EXCEPT !.guest_area_page0_pa = virt_to_phys(X1.guest_area),
                                !.guest_area_page1_pa = virt_to_phys(X1.guest_area + 1)],
              heap |-> a.heap]

\* the memory state with nothing initialized
MmDown ==
    [heap |-> {}, kkm |-> KkmZero, kx |-> [k \in KONTEXTS |-> KxZero],
     n |-> 0, op |-> "none", who |-> NULL, fail |-> 0, ret |-> 0, released |-> 0]

\* kontexts 1..j initialized on top of memory state m
RECURSIVE KontextsUp(_, _)
KontextsUp(m, j) ==
    IF j = 0 THEN m
    ELSE LET p == KontextsUp(m, j - 1)
             r == kkm_kontext_init(p.kx[j], p.heap, TRUE)
         IN  [p EXCEPT !.kx[j] = r.kx, !.heap = r.heap]

\* the memory state once the kontainer and every kontext are initialized
MmReady ==
    LET r == kkm_kontainer_init(KkmZero, {}, 0)
    IN  KontextsUp([MmDown EXCEPT !.kkm = r.kkm, !.heap = r.heap], NKontext)

(***************************************************************************)
(* Inputs the model draws from                                             *)
(***************************************************************************)
\* native register contents of a core before enter_guest; ss is __KERNEL_DS
\* after a syscall entry and null after an interrupt taken from user mode
NativeProfiles ==
    { [id |-> 0, ds |-> 0, es |-> 0, fs |-> 0, gs |-> 0, ss |-> KERNEL_DS,
       fs_base |-> 700, gs_base |-> 900, kernel_gs_base |-> 800, lstar |-> 400,
       cr3 |-> 100, cr4 |-> 32],
      [id |-> 1, ds |-> USER_DS, es |-> USER_DS, fs |-> 99, gs |-> 107, ss |-> 0,
       fs_base |-> 710, gs_base |-> 910, kernel_gs_base |-> 810, lstar |-> 410,
       cr3 |-> 110, cr4 |-> 48] }

DefaultProfile == CHOOSE p \in NativeProfiles : p.id = 0

Boot(c, p) ==
    [cr3 |-> p.cr3 + c, cr4 |-> p.cr4,
     ds |-> p.ds, es |-> p.es, fs |-> p.fs, gs |-> p.gs, ss |-> p.ss,
     fs_base |-> p.fs_base + c, gs_base |-> p.gs_base + c,
     kernel_gs_base |-> p.kernel_gs_base + c, lstar |-> p.lstar,
     idtr |-> NativeIdtDesc,
     sp0 |-> 600 + c, sp1 |-> 610 + c, sp2 |-> 620 + c,
     irq |-> TRUE, preempt |-> 0, dr |-> 1024 + c,
     stack |-> "native", domain |-> "HOST_KERNEL"]

\* the registers the round trip is about
NativeRegs(r) ==
    [ds |-> r.ds, es |-> r.es, fs |-> r.fs, gs |-> r.gs, ss |-> r.ss,
     fs_base |-> r.fs_base, gs_base |-> r.gs_base,
     kernel_gs_base |-> r.kernel_gs_base, lstar |-> r.lstar, cr3 |-> r.cr3]

\* guest register contents at a trap: rax, rdx, rflags
GuestRegs ==
    { [rax |-> U64(0, 0, 4660), rdx |-> U64(0, 0, 1016), rflags |-> 514],
      [rax |-> U64(7, 4097, 4660), rdx |-> U64(0, 3, 66552), rflags |-> 12290],
      [rax |-> U64Max, rdx |-> U64Max, rflags |-> 65538] }

FirstRegs == CHOOSE r \in GuestRegs : r.rflags = 514

\* what the payload did to the segment registers it can reach before trapping
GuestSegs ==
    { [ds |-> 0, es |-> 0, fs |-> 0, gs |-> 0, fs_base |-> GuestFsBase, gs_base |-> 0],
      [ds |-> USER_DS, es |-> USER_DS, fs |-> 83, gs |-> 91, fs_base |-> 760, gs_base |-> 770] }

\* instruction pointers of a general-protection trap
GpRips ==
    { KKM_GUEST_MEM_START_VA,
      U64Add(KKM_GUEST_VA_OFFSET, U64(0, 0, 5)),
      U64Sub(KKM_GUEST_MEM_TOP_VA, U64One),
      U64(0, 0, 4096) }

\* faulting addresses of a page fault
PfAddrs ==
    { U64(0, 3, 16),
      KKM_GUEST_VVAR_VDSO_BASE_VA,
      U64(0, 1, 0) }

PfErrors == {0, 2, 4, 6, 7}
OtherVectors == {0, 6, 255}

TrapInputs ==
    { [vec |-> X86_TRAP_GP, error |-> 0, rip |-> r, cr2 |-> U64Zero, regs |-> g, segs |-> s] :
        r \in GpRips, g \in GuestRegs, s \in {CHOOSE x \in GuestSegs : x.fs = 0} }
    \cup
    { [vec |-> X86_TRAP_PF, error |-> e, rip |-> KKM_GUEST_MEM_START_VA, cr2 |-> a,
       regs |-> FirstRegs, segs |-> s] :
        e \in PfErrors, a \in PfAddrs, s \in GuestSegs }
    \cup
    { [vec |-> v, error |-> 0, rip |-> KKM_GUEST_MEM_START_VA, cr2 |-> U64Zero,
       regs |-> FirstRegs, segs |-> s] :
        v \in OtherVectors, s \in {CHOOSE x \in GuestSegs : x.fs = 83} }

\* a reduced set for the multi-core specification
TrapInputsMC ==
    { t \in TrapInputs :
        /\ t.regs = FirstRegs
        /\ t.segs.fs = 83 \/ t.vec = X86_TRAP_GP
        /\ t.vec = X86_TRAP_GP => t.rip = KKM_GUEST_MEM_START_VA
        /\ t.vec = X86_TRAP_PF => t.error = 6 /\ t.cr2 = U64(0, 3, 16)
        /\ t.vec \in {X86_TRAP_GP, X86_TRAP_PF, 6} }

\* what the monitor's memory does to the one-byte probe
ProbeEnvs ==
    { [rd_ok |-> TRUE, rd_byte |-> KKM_OUT_OPCODE, wr_ok |-> TRUE],
      [rd_ok |-> TRUE, rd_byte |-> 144, wr_ok |-> TRUE],
      [rd_ok |-> TRUE, rd_byte |-> 144, wr_ok |-> FALSE],
      [rd_ok |-> FALSE, rd_byte |-> 0, wr_ok |-> TRUE] }

ProbeEnvsMC == { e \in ProbeEnvs : e.rd_ok /\ e.wr_ok /\ e.rd_byte = KKM_OUT_OPCODE }

SlotSamples ==
    { [used |-> u, memory_size |-> sz, userspace_addr |-> b] :
        u \in BOOLEAN,
        sz \in {U64Zero, U64(0, 0, 3 * PAGE_SIZE), U64(0, 2, 0)},
        b \in {U64(32, 7, 0), U64(33, 1048575, 4096)} }

MainSlots == { s \in SlotSamples : s.memory_size = U64(0, 0, 3 * PAGE_SIZE)
                                   /\ s.userspace_addr = U64(32, 7, 0) }

NoDispatch == [outcome |-> 0, env |-> CHOOSE e \in ProbeEnvs : ~e.rd_ok, acc |-> <<>>, n |-> 0]

InitKontext ==
    [native_kernel_cr3 |-> 0, native_kernel_cr4 |-> 0,
     native_kernel_ds |-> 0, native_kernel_es |-> 0,
     native_kernel_fs |-> 0, native_kernel_fs_base |-> 0,
     native_kernel_gs |-> 0, native_kernel_gs_base |-> 0,
     native_kernel_gs_kern_base |-> 0, native_kernel_ss |-> 0,
     native_kernel_entry_syscall_64 |-> 0, native_debug_registers |-> 0]

\* the guest area after kkm_kontext_init and the caller's register setup
InitGuestArea(k, r) ==
    [redzone_top |-> REDZONE_DATA, redzone_bottom |-> REDZONE_DATA,
     kkm_kontext |-> k, guest_area_beg |-> MmReady.kx[k].guest_area,
     regs_rip |-> KKM_GUEST_MEM_START_VA, regs_rflags |-> r.rflags,
     regs_rax |-> r.rax, regs_rdx |-> r.rdx,
     sregs_cr2 |-> U64Zero, sregs_fs_base |-> GuestFsBase,
     trap_rip |-> U64Zero, trap_rflags |-> 0, trap_error |-> 0,
     kkm_intr_no |-> -1, instruction_decode0 |-> 0,
     native_save_tss_sp0 |-> 0, native_save_tss_sp1 |-> 0, native_save_tss_sp2 |-> 0,
     native_idt_desc |-> 0, guest_idt_desc |-> 0,
     guest_kernel_cr3 |-> 0, guest_payload_cr3 |-> 0, guest_kernel_cr4 |-> 0,
     guest_payload_cs |-> KERNEL_DS - 8, guest_payload_ss |-> KERNEL_DS,
     native_kernel_stack |-> 0, debug_registers |-> 0]

InitRun ==
    [exit_reason |-> KKM_EXIT_UNKNOWN, io_direction |-> 0, io_size |-> 0,
     io_port |-> 0, io_count |-> 0, io_data_offset |-> 0]

InitHist ==
    [pre |-> NativeRegs(Boot(0, DefaultProfile)), depth |-> 0, entered |-> NULL,
     rth |-> NULL,
     disp |-> NoDispatch, verified |-> FALSE, loops |-> 0, tss |-> <<0, 0, 0>>]

\* no emulator has been applied to the translated address yet
NoEmu == [vec |-> 0, error |-> 0, env |-> NoDispatch.env, ret_val |-> 0, acc |-> <<>>,
          touched |-> FALSE]

InitTr == [pc |-> "idle", slot |-> CHOOSE s \in MainSlots : s.used, va |-> U64Zero,
           ret_val |-> FALSE, monitor_va |-> U64Zero, emu |-> NoEmu]

InitCommon ==
    /\ pc = [c \in CPUS |-> "idle"]
    /\ arg = [c \in CPUS |-> NULL]
    /\ current_kontext = [c \in CPUS |-> NULL]
    /\ kx_area = [c \in CPUS |-> NULL]
    /\ kontext = [k \in KONTEXTS |-> InitKontext]
    /\ kkm_run = [k \in KONTEXTS |-> InitRun]
    /\ io_data = [k \in KONTEXTS |-> U64Zero]
    /\ ret_val = [c \in CPUS |-> 0]
    /\ hist = [c \in CPUS |-> InitHist]
    /\ ntraps = 0
    /\ nentries = 0

InitReady ==
    /\ InitCommon
    /\ mm = MmReady

Init ==
    /\ InitReady
    /\ \E p \in NativeProfiles :
          cpu = [c \in CPUS |-> Boot(c, IF c = 1 THEN p ELSE DefaultProfile)]
    /\ \E r \in GuestRegs : ga = [k \in KONTEXTS |-> InitGuestArea(k, IF k = 1 THEN r ELSE FirstRegs)]
    /\ mem_slot \in MainSlots
    /\ tr = InitTr


(***************************************************************************)
(* enter_guest: kkm_kontext_switch_kernel, in program order                *)
(***************************************************************************)
\* the caller (the run loop) calls kkm_kontext_switch_kernel(k) on core c;
\* a kontext is never entered on two cores at once
EnterGuest(c, k) ==
    /\ pc[c] = "idle"
    /\ nentries < MaxEntries
    /\ \A d \in CPUS : arg[d] # k
    /\ pc' = [pc EXCEPT ![c] = "begin"]
    /\ arg' = [arg EXCEPT ![c] = k]
    /\ hist' = [hist EXCEPT ![c] = [@ EXCEPT !.pre = NativeRegs(cpu[c]),
                                             !.depth = cpu[c].preempt,
                                             !.entered = k,
                                             !.rth = NULL,
                                             !.disp = NoDispatch,
                                             !.verified = FALSE,
                                             !.loops = 0]]
    /\ nentries' = nentries + 1
    /\ UNCHANGED <<mm, cpu, current_kontext, kx_area, kontext, ga, kkm_run, io_data,
                   mem_slot, ret_val, ntraps, tr>>

\* begin without the local_irq_disable
SK_Begin_IrqOn(c) ==
    /\ pc[c] = "begin"
    /\ LET k == arg[c] IN
        /\ kx_area' = [kx_area EXCEPT ![c] = k]
        /\ ga' = [ga EXCEPT ![k] = [@ EXCEPT !.native_idt_desc = NativeIdtDesc,
                                             !.guest_idt_desc = GuestIdtDesc]]
    /\ cpu' = cpu
    /\ pc' = [pc EXCEPT ![c] = "register"]
    /\ UNCHANGED <<mm, arg, current_kontext, kontext, kkm_run, io_data, mem_slot,
                   ret_val, hist, ntraps, nentries, tr>>

\* begin: ... kkm_mmu_set_guest_area, kkm_idt_get_desc, local_irq_disable
SK_Begin(c) ==
    /\ pc[c] = "begin"
    /\ LET k == arg[c] IN
        /\ kx_area' = [kx_area EXCEPT ![c] = k]
        /\ ga' = [ga EXCEPT ![k] = [@ EXCEPT !.native_idt_desc = NativeIdtDesc,
                                             !.guest_idt_desc = GuestIdtDesc]]
    /\ cpu' = [cpu EXCEPT ![c] = [@ EXCEPT !.irq = FALSE]]
    /\ pc' = [pc EXCEPT ![c] = "register"]
    /\ UNCHANGED <<mm, arg, current_kontext, kontext, kkm_run, io_data, mem_slot,
                   ret_val, hist, ntraps, nentries, tr>>

\* per_cpu(current_kontext, cpu) = kkm_kontext, written as one global slot
PerCpuWrite_Global(cur, c, k) == [d \in CPUS |-> k]

PerCpuWrite(cur, c, k) == [cur EXCEPT ![c] = k]

\* cpu = get_cpu(); per_cpu(current_kontext, cpu) = kkm_kontext
SK_Register(c) ==
    /\ pc[c] = "register"
    /\ cpu' = [cpu EXCEPT ![c] = [@ EXCEPT !.preempt = @ + 1]]
    /\ current_kontext' = PerCpuWrite(current_kontext, c, arg[c])
    /\ pc' = [pc EXCEPT ![c] = "save_cr"]
    /\ UNCHANGED <<mm, arg, kx_area, kontext, ga, kkm_run, io_data, mem_slot,
                   ret_val, hist, ntraps, nentries, tr>>

\* save native cr3 and cr4, set the guest roots in the guest area
SK_SaveCr(c) ==
    /\ pc[c] = "save_cr"
    /\ LET k == arg[c] IN
        /\ kontext' = [kontext EXCEPT ![k] = [@ EXCEPT !.native_kernel_cr3 = cpu[c].cr3,
                                                       !.native_kernel_cr4 = cpu[c].cr4]]
        /\ ga' = [ga EXCEPT ![k] = [@ EXCEPT !.guest_kernel_cr3 = GuestKernelPa,
                                             !.guest_payload_cr3 = GuestPayloadPa,
                                             !.guest_kernel_cr4 = cpu[c].cr4]]
    /\ pc' = [pc EXCEPT ![c] = "change_as"]
    /\ UNCHANGED <<mm, cpu, arg, current_kontext, kx_area, kkm_run, io_data, mem_slot,
                   ret_val, hist, ntraps, nentries, tr>>

\* kkm_change_address_space(ga->guest_kernel_cr3)
SK_ChangeAddressSpace(c) ==
    /\ pc[c] = "change_as"
    /\ cpu' = [cpu EXCEPT ![c] = [@ EXCEPT !.cr3 = ga[arg[c]].guest_kernel_cr3]]
    /\ pc' = [pc EXCEPT ![c] = "save_seg"]
    /\ UNCHANGED <<mm, arg, current_kontext, kx_area, kontext, ga, kkm_run, io_data,
                   mem_slot, ret_val, hist, ntraps, nentries, tr>>

\* the snapshot without the read of MSR_LSTAR
SavedSegments_NoLstar(kx, r) ==
    [kx EXCEPT !.native_kernel_ds = r.ds,
               !.native_kernel_es = r.es,
               !.native_kernel_fs = r.fs,
               !.native_kernel_fs_base = r.fs_base,
               !.native_kernel_gs = r.gs,
               !.native_kernel_gs_base = r.gs_base,
               !.native_kernel_gs_kern_base = r.kernel_gs_base,
               !.native_kernel_ss = r.ss,
               !.native_debug_registers = r.dr]

\* the segment, base, syscall-target and debug-register snapshot taken by
\* kkm_kontext_switch_kernel after kkm_change_address_space
SavedSegments(kx, r) ==
    [kx EXCEPT !.native_kernel_ds = r.ds,
               !.native_kernel_es = r.es,
               !.native_kernel_fs = r.fs,
               !.native_kernel_fs_base = r.fs_base,
               !.native_kernel_gs = r.gs,
               !.native_kernel_gs_base = r.gs_base,
               !.native_kernel_gs_kern_base = r.kernel_gs_base,
               !.native_kernel_ss = r.ss,
               !.native_kernel_entry_syscall_64 = r.lstar,
               !.native_debug_registers = r.dr]

\* save segments, bases, LSTAR, debug registers; kkm_intr_no = -1;
\* kkm_switch_to_gk_asm
SK_SaveSegments(c) ==
    /\ pc[c] = "save_seg"
    /\ LET k == arg[c] IN
        /\ kontext' = [kontext EXCEPT ![k] = SavedSegments(@, cpu[c])]
        /\ ga' = [ga EXCEPT ![k] = [@ EXCEPT !.kkm_intr_no = -1,
                                             !.native_kernel_stack = 500 + c]]
    /\ cpu' = [cpu EXCEPT ![c] = [@ EXCEPT !.stack = "guest_area",
                                           !.domain = "GUEST_KERNEL"]]
    /\ pc' = [pc EXCEPT ![c] = "gk"]
    /\ UNCHANGED <<mm, arg, current_kontext, kx_area, kkm_run, io_data, mem_slot,
                   ret_val, hist, ntraps, nentries, tr>>

(***************************************************************************)
(* enter_payload: kkm_guest_kernel_start_payload                           *)
(***************************************************************************)
kkm_verify_guest_area_redzone(g) ==
    g.redzone_top = REDZONE_DATA /\ g.redzone_bottom = REDZONE_DATA

\* lines 207-252: everything before the redzone verification
\* the setup without the write of MSR_LSTAR
PayloadSetupCpu_NativeLstar(r, g) ==
    [r EXCEPT !.preempt = @ + 1,
              !.ds = 0, !.es = 0, !.fs = 0,
              !.fs_base = g.sregs_fs_base,
              !.dr = g.debug_registers]

PayloadSetupCpu(r, g) ==
    [r EXCEPT !.preempt = @ + 1,
              !.ds = 0, !.es = 0, !.fs = 0,
              !.fs_base = g.sregs_fs_base,
              !.lstar = GuestSyscallEntry,
              !.dr = g.debug_registers]

\* the setup with the disabled branch taken: the guest's own
\* interrupt-enable flag is kept
PayloadSetupGa_KeepIf(g) ==
    [g EXCEPT !.guest_payload_cs = USER_CS,
              !.guest_payload_ss = USER_DS,
              !.regs_rflags = SetRf(ClearIopl(@))]

PayloadSetupGa(g) ==
    [g EXCEPT !.guest_payload_cs = USER_CS,
              !.guest_payload_ss = USER_DS,
              !.regs_rflags = SetRf(ClearIopl(ClearIf(@)))]

StartPayloadBody(c, intact) ==
    /\ pc[c] = "gk"
    /\ LET k  == kx_area[c]
           r1 == PayloadSetupCpu(cpu[c], ga[k])
           g1 == PayloadSetupGa(ga[k])
       IN  IF intact
           THEN /\ ga' = [ga EXCEPT ![k] = [g1 EXCEPT !.native_save_tss_sp0 = r1.sp0,
                                                      !.native_save_tss_sp1 = r1.sp1,
                                                      !.native_save_tss_sp2 = r1.sp2]]
                /\ cpu' = [cpu EXCEPT ![c] = [r1 EXCEPT !.sp0 = KxGuestAreaSp0,
                                                        !.idtr = g1.guest_idt_desc,
                                                        !.cr3 = g1.guest_payload_cr3,
                                                        !.domain = "GUEST_PAYLOAD"]]
                /\ pc' = [pc EXCEPT ![c] = "payload"]
           ELSE /\ ga' = [ga EXCEPT ![k] = g1]
                /\ cpu' = [cpu EXCEPT ![c] = r1]
                /\ pc' = [pc EXCEPT ![c] = "aborted"]
    /\ hist' = [hist EXCEPT ![c] = [@ EXCEPT !.verified = intact,
                                             !.tss = IF intact
                                                     THEN <<cpu[c].sp0, cpu[c].sp1, cpu[c].sp2>>
                                                     ELSE @]]
    /\ UNCHANGED <<mm, arg, current_kontext, kx_area, kontext, kkm_run, io_data,
                   mem_slot, ret_val, ntraps, nentries, tr>>

kkm_guest_kernel_start_payload_NoVerify(c) == StartPayloadBody(c, TRUE)

kkm_guest_kernel_start_payload(c) ==
    StartPayloadBody(c, kkm_verify_guest_area_redzone(ga[kx_area[c]]))

\* a stray write lands on one of the sentinels of kontext k's guest area
CorruptRedzone(k, top) ==
    /\ \E c \in CPUS : arg[c] = k /\ pc[c] \in {"begin", "gk", "payload"}
    /\ IF top THEN ga[k].redzone_top = REDZONE_DATA ELSE ga[k].redzone_bottom = REDZONE_DATA
    /\ ga' = [ga EXCEPT ![k] = IF top THEN [@ EXCEPT !.redzone_top = REDZONE_DATA + 1]
                                      ELSE [@ EXCEPT !.redzone_bottom = REDZONE_DATA + 1]]
    /\ UNCHANGED <<mm, cpu, pc, arg, current_kontext, kx_area, kontext, kkm_run, io_data,
                   mem_slot, ret_val, hist, ntraps, nentries, tr>>

(***************************************************************************)
(* a trap in the payload: the CPU and the entry trampoline deposit the     *)
(* vector, the trap frame and the guest registers in the guest area seen   *)
(* through the kx window, and switch to the guest-kernel root              *)
(***************************************************************************)
GuestTrap(c, in) ==
    /\ pc[c] = "payload"
    /\ ntraps < MaxTraps
    /\ LET k == kx_area[c] IN
        /\ ga' = [ga EXCEPT ![k] = [@ EXCEPT !.kkm_intr_no = in.vec,
                                             !.trap_rip = in.rip,
                                             !.trap_rflags = in.regs.rflags,
                                             !.trap_error = in.error,
                                             !.regs_rax = in.regs.rax,
                                             !.regs_rdx = in.regs.rdx,
                                             !.sregs_cr2 = IF in.vec = X86_TRAP_PF
                                                           THEN in.cr2 ELSE @]]
        /\ cpu' = [cpu EXCEPT ![c] = [@ EXCEPT !.cr3 = ga[k].guest_kernel_cr3,
                                               !.ds = in.segs.ds, !.es = in.segs.es,
                                               !.fs = in.segs.fs, !.gs = in.segs.gs,
                                               !.fs_base = in.segs.fs_base,
                                               !.gs_base = in.segs.gs_base,
                                               !.ss = 0,
                                               !.domain = "GUEST_KERNEL"]]
    /\ ntraps' = ntraps + 1
    /\ pc' = [pc EXCEPT ![c] = "trap"]
    /\ UNCHANGED <<mm, arg, current_kontext, kx_area, kontext, kkm_run, io_data,
                   mem_slot, ret_val, hist, nentries, tr>>

(***************************************************************************)
(* return_to_host: kkm_switch_to_host_kernel                               *)
(***************************************************************************)
\* the native registers as kkm_switch_to_host_kernel reloads them
\* the reload without load_sp0(ga->native_save_tss_sp0)
RestoredCpu_KeepSp0(r, kx, g) ==
    [r EXCEPT !.preempt = @ + 1,
              !.sp1 = g.native_save_tss_sp1,
              !.sp2 = g.native_save_tss_sp2,
              !.idtr = g.native_idt_desc,
              !.lstar = kx.native_kernel_entry_syscall_64,
              !.ds = kx.native_kernel_ds,
              !.es = kx.native_kernel_es,
              !.fs = kx.native_kernel_fs,
              !.fs_base = kx.native_kernel_fs_base,
              !.gs = kx.native_kernel_gs,
              !.gs_base = kx.native_kernel_gs_base,
              !.kernel_gs_base = kx.native_kernel_gs_kern_base,
              !.ss = KERNEL_DS,
              !.cr3 = kx.native_kernel_cr3,
              !.stack = "native",
              !.domain = "HOST_KERNEL"]

RestoredCpu(r, kx, g) ==
    [r EXCEPT !.preempt = @ + 1,
              !.sp0 = g.native_save_tss_sp0,
              !.sp1 = g.native_save_tss_sp1,
              !.sp2 = g.native_save_tss_sp2,
              !.idtr = g.native_idt_desc,
              !.lstar = kx.native_kernel_entry_syscall_64,
              !.ds = kx.native_kernel_ds,
              !.es = kx.native_kernel_es,
              !.fs = kx.native_kernel_fs,
              !.fs_base = kx.native_kernel_fs_base,
              !.gs = kx.native_kernel_gs,
              !.gs_base = kx.native_kernel_gs_base,
              !.kernel_gs_base = kx.native_kernel_gs_kern_base,
              !.ss = KERNEL_DS,
              !.cr3 = kx.native_kernel_cr3,
              !.stack = "native",
              !.domain = "HOST_KERNEL"]

kkm_switch_to_host_kernel(c) ==
    /\ pc[c] = "trap"
    /\ LET k == current_kontext[c] IN
        /\ ga' = [ga EXCEPT ![k] = [@ EXCEPT !.regs_rip = ga[k].trap_rip,
                                             !.regs_rflags = ga[k].trap_rflags,
                                             !.debug_registers = cpu[c].dr]]
        /\ cpu' = [cpu EXCEPT ![c] = RestoredCpu(@, kontext[k], ga[k])]
        /\ hist' = [hist EXCEPT ![c] = [@ EXCEPT !.rth = k]]
    /\ pc' = [pc EXCEPT ![c] = "intr_ret"]
    /\ UNCHANGED <<mm, arg, current_kontext, kx_area, kontext, kkm_run, io_data,
                   mem_slot, ret_val, ntraps, nentries, tr>>

(***************************************************************************)
(* back in kkm_kontext_switch_kernel: lines 178-193                        *)
(***************************************************************************)
\* whether kkm_kontext_switch_kernel takes the goto begin
ResumesGuest_Never(r) == FALSE

ResumesGuest(r) == r = KKM_KONTEXT_FAULT_PROCESS_DONE

\* lines 178-193 with the resume jumping past the binding, registration and
\* snapshot, straight to the switch into the guest area
SK_ProcessIntr_SkipBegin(c, env) ==
    /\ pc[c] = "intr_ret"
    /\ LET k == arg[c]
           d == kkm_process_intr(ga[k], kkm_run[k], io_data[k], mem_slot, env)
       IN  /\ ga' = [ga EXCEPT ![k] = d.ga]
           /\ kkm_run' = [kkm_run EXCEPT ![k] = d.kkm_run]
           /\ io_data' = [io_data EXCEPT ![k] = d.io_data]
           /\ hist' = [hist EXCEPT ![c] =
                         [@ EXCEPT !.disp = [outcome |-> d.ret_val, env |-> env,
                                             acc |-> d.acc, n |-> @.n + 1],
                                   !.loops = IF ResumesGuest(d.ret_val) THEN @ + 1 ELSE @]]
           /\ IF ResumesGuest(d.ret_val)
              THEN /\ pc' = [pc EXCEPT ![c] = "gk"]
                   /\ UNCHANGED <<arg, ret_val>>
              ELSE /\ pc' = [pc EXCEPT ![c] = "idle"]
                   /\ arg' = [arg EXCEPT ![c] = NULL]
                   /\ ret_val' = [ret_val EXCEPT ![c] = d.ret_val]
    /\ cpu' = [cpu EXCEPT ![c] = [@ EXCEPT !.dr = kontext[arg[c]].native_debug_registers,
                                           !.irq = TRUE]]
    /\ UNCHANGED <<mm, current_kontext, kx_area, kontext, mem_slot, ntraps, nentries, tr>>

SK_ProcessIntr(c, env) ==
    /\ pc[c] = "intr_ret"
    /\ LET k == arg[c]
           d == kkm_process_intr(ga[k], kkm_run[k], io_data[k], mem_slot, env)
       IN  /\ ga' = [ga EXCEPT ![k] = d.ga]
           /\ kkm_run' = [kkm_run EXCEPT ![k] = d.kkm_run]
           /\ io_data' = [io_data EXCEPT ![k] = d.io_data]
           /\ hist' = [hist EXCEPT ![c] =
                         [@ EXCEPT !.disp = [outcome |-> d.ret_val, env |-> env,
                                             acc |-> d.acc, n |-> @.n + 1],
                                   !.loops = IF ResumesGuest(d.ret_val) THEN @ + 1 ELSE @]]
           /\ IF ResumesGuest(d.ret_val)
              THEN /\ pc' = [pc EXCEPT ![c] = "begin"]
                   /\ UNCHANGED <<arg, ret_val>>
              ELSE /\ pc' = [pc EXCEPT ![c] = "idle"]
                   /\ arg' = [arg EXCEPT ![c] = NULL]
                   /\ ret_val' = [ret_val EXCEPT ![c] = d.ret_val]
    /\ cpu' = [cpu EXCEPT ![c] = [@ EXCEPT !.dr = kontext[arg[c]].native_debug_registers,
                                           !.irq = TRUE]]
    /\ UNCHANGED <<mm, current_kontext, kx_area, kontext, mem_slot, ntraps, nentries, tr>>

Step(c, traps, envs) ==
    \/ SK_Begin(c)
    \/ SK_Register(c)
    \/ SK_SaveCr(c)
    \/ SK_ChangeAddressSpace(c)
    \/ SK_SaveSegments(c)
    \/ kkm_guest_kernel_start_payload(c)
    \/ \E in \in traps : GuestTrap(c, in)
    \/ kkm_switch_to_host_kernel(c)
    \/ \E env \in envs : SK_ProcessIntr(c, env)

\* one core, one kontext, the full set of traps and probe outcomes
Next ==
    \/ EnterGuest(1, 1)
    \/ Step(1, TrapInputs, ProbeEnvs)
    \/ \E top \in BOOLEAN : CorruptRedzone(1, top)

Spec == Init /\ [][Next]_vars


(***************************************************************************)
(* Several cores, each entering a kontext of its own, with a reduced set   *)
(* of traps                                                                *)
(***************************************************************************)
InitMC ==
    /\ InitReady
    /\ cpu = [c \in CPUS |-> Boot(c, DefaultProfile)]
    /\ ga = [k \in KONTEXTS |-> InitGuestArea(k, FirstRegs)]
    /\ mem_slot = CHOOSE s \in MainSlots : s.used
    /\ tr = InitTr

NextMC ==
    \E c \in CPUS :
        \/ \E k \in KONTEXTS : EnterGuest(c, k)
        \/ Step(c, TrapInputsMC, ProbeEnvsMC)

SpecMC == InitMC /\ [][NextMC]_vars

(***************************************************************************)
(* The translator on its own: one call on each sampled address and slot    *)
(***************************************************************************)
AddrSamples ==
    { U64Zero,
      U64(0, 1, Limb - 1), U64(0, 2, 0), U64(0, 2, 1), U64(0, 300, 77),
      U64(0, 524287, Limb - 1), U64(0, 524288, 0), U64(5, 0, 0),
      U64(127, 524287, Limb - 1), U64(127, 524288, 0), U64(127, 800000, 123),
      U64(127, 1048573, Limb - 1), U64(127, 1048574, 0), U64(127, 1048574, 5),
      U64(127, 1048574, Limb - 1), U64(127, 1048575, 0), U64(127, 1048575, 12287),
      U64(127, 1048575, 12288), U64(128, 0, Limb - 1), U64(128, 1, 0),
      U64(128, 0, 4096), U64Max }

InitT ==
    /\ InitReady
    /\ cpu = [c \in CPUS |-> Boot(c, DefaultProfile)]
    /\ ga = [k \in KONTEXTS |-> InitGuestArea(k, FirstRegs)]
    /\ mem_slot \in SlotSamples
    /\ \E a \in AddrSamples :
          tr = [pc |-> "call", slot |-> mem_slot, va |-> a,
                ret_val |-> FALSE, monitor_va |-> U64Zero, emu |-> NoEmu]

TranslateCall ==
    /\ tr.pc = "call"
    /\ LET t == kkm_guest_va_to_monitor_va(mem_slot, tr.va) IN
          tr' = [tr EXCEPT !.pc = "done", !.ret_val = t.ret_val, !.monitor_va = t.monitor_va]
    /\ UNCHANGED <<mm, cpu, pc, arg, current_kontext, kx_area, kontext, ga, kkm_run, io_data,
                   mem_slot, ret_val, hist, ntraps, nentries>>

\* the traps the dispatcher is applied to at the sampled address: a
\* general-protection trap at that rip, a supervisor and a user write page
\* fault at that cr2
EmuTraps == { [vec |-> X86_TRAP_GP, error |-> 0], [vec |-> X86_TRAP_PF, error |-> 0],
              [vec |-> X86_TRAP_PF, error |-> 6] }

\* the guest area as the trap trampoline leaves it for a trap at address a
TrapGuestArea(t, a) ==
    [InitGuestArea(1, FirstRegs) EXCEPT !.kkm_intr_no = t.vec,
                                        !.trap_error = t.error,
                                        !.trap_rip = IF t.vec = X86_TRAP_GP THEN a
                                                     ELSE KKM_GUEST_MEM_START_VA,
                                        !.sregs_cr2 = IF t.vec = X86_TRAP_PF THEN a ELSE @]

\* kkm_process_intr applied to a trap at the address just translated
EmulateCall ==
    /\ tr.pc = "done"
    /\ \E t \in EmuTraps, env \in ProbeEnvs :
          LET g == TrapGuestArea(t, tr.va)
              d == kkm_process_intr(g, InitRun, U64Zero, mem_slot, env)
          IN  tr' = [tr EXCEPT !.pc = "emulated",
                               !.emu = [vec |-> t.vec, error |-> t.error, env |-> env,
                                        ret_val |-> d.ret_val, acc |-> d.acc,
                                        touched |-> d.ga # g \/ d.kkm_run # InitRun
                                                      \/ d.io_data # U64Zero]]
    /\ UNCHANGED <<mm, cpu, pc, arg, current_kontext, kx_area, kontext, ga, kkm_run, io_data,
                   mem_slot, ret_val, hist, ntraps, nentries>>

NextT == TranslateCall \/ EmulateCall

SpecTr == InitT /\ [][NextT]_vars

(***************************************************************************)
(* Initialization and teardown on their own: the kontainer and each        *)
(* kontext are initialized, with any allocation failing, and cleaned up    *)
(***************************************************************************)
\* the guest area before kkm_kontext_init has run
UninitGuestArea(k) ==
    [InitGuestArea(k, FirstRegs) EXCEPT !.redzone_top = 0, !.redzone_bottom = 0,
                                        !.kkm_kontext = NULL, !.guest_area_beg = NULL]

InitI ==
    /\ InitCommon
    /\ mm = MmDown
    /\ cpu = [c \in CPUS |-> Boot(c, DefaultProfile)]
    /\ ga = [k \in KONTEXTS |-> UninitGuestArea(k)]
    /\ mem_slot = CHOOSE s \in MainSlots : s.used
    /\ tr = InitTr

KontainerInit(fail_at) ==
    /\ mm.n < MaxOps
    /\ mm.kkm.guest_kernel_page = NULL
    /\ mm.kkm.guest_payload_page = NULL
    /\ mm.kkm.idt_page = NULL
    /\ LET r == kkm_kontainer_init(mm.kkm, mm.heap, fail_at) IN
          mm' = [mm EXCEPT !.kkm = r.kkm, !.heap = r.heap, !.n = @ + 1,
                           !.op = "kontainer_init", !.who = NULL, !.fail = fail_at,
                           !.ret = r.ret_val, !.released = 0]
    /\ UNCHANGED <<cpu, pc, arg, current_kontext, kx_area, kontext, ga, kkm_run, io_data,
                   mem_slot, ret_val, hist, ntraps, nentries, tr>>

KontainerCleanup ==
    /\ mm.n < MaxOps
    /\ LET r == kkm_kontainer_cleanup(mm.kkm, mm.heap) IN
          mm' = [mm EXCEPT !.kkm = r.kkm, !.heap = r.heap, !.n = @ + 1,
                           !.op = "kontainer_cleanup", !.who = NULL, !.fail = 0,
                           !.ret = 0,
                           !.released = Cardinality(mm.heap) - Cardinality(r.heap)]
    /\ UNCHANGED <<cpu, pc, arg, current_kontext, kx_area, kontext, ga, kkm_run, io_data,
                   mem_slot, ret_val, hist, ntraps, nentries, tr>>

\* kkm_kontext_init with kkm_init_guest_area_redzone and the back pointers
KontextInit(k, ok) ==
    /\ mm.n < MaxOps
    /\ mm.kx[k].guest_area_page = NULL
    /\ LET r == kkm_kontext_init(mm.kx[k], mm.heap, ok) IN
          /\ mm' = [mm EXCEPT !.kx[k] = r.kx, !.heap = r.heap, !.n = @ + 1,
                              !.op = "kontext_init", !.who = k,
                              !.fail = IF ok THEN 0 ELSE 1,
                              !.ret = r.ret_val, !.released = 0]
          /\ ga' = IF r.ret_val = 0
                   THEN [ga EXCEPT ![k] = [@ EXCEPT !.redzone_top = REDZONE_DATA,
                                                    !.redzone_bottom = REDZONE_DATA,
                                                    !.kkm_kontext = k,
                                                    !.guest_area_beg = r.kx.guest_area]]
                   ELSE ga
    /\ UNCHANGED <<cpu, pc, arg, current_kontext, kx_area, kontext, kkm_run, io_data,
                   mem_slot, ret_val, hist, ntraps, nentries, tr>>

KontextCleanup(k) ==
    /\ mm.n < MaxOps
    /\ LET r == kkm_kontext_cleanup(mm.kx[k], mm.heap) IN
          mm' = [mm EXCEPT !.kx[k] = r.kx, !.heap = r.heap, !.n = @ + 1,
                           !.op = "kontext_cleanup", !.who = k, !.fail = 0,
                           !.ret = 0,
                           !.released = Cardinality(mm.heap) - Cardinality(r.heap)]
    /\ UNCHANGED <<cpu, pc, arg, current_kontext, kx_area, kontext, ga, kkm_run, io_data,
                   mem_slot, ret_val, hist, ntraps, nentries, tr>>

NextI ==
    \/ \E f \in 0..3 : KontainerInit(f)
    \/ KontainerCleanup
    \/ \E k \in KONTEXTS, ok \in BOOLEAN : KontextInit(k, ok)
    \/ \E k \in KONTEXTS : KontextCleanup(k)

SpecInit == InitI /\ [][NextI]_vars

(***************************************************************************)
(* Properties                                                              *)
(***************************************************************************)
\* the dispatch step of core c: kkm_process_intr has run and
\* kkm_kontext_switch_kernel has either looped or returned
Dispatches(c) == pc[c] = "intr_ret" /\ pc'[c] # "intr_ret"

\* C1: after return_to_host the native segment selectors (ds, es, fs, gs, ss),
\* the FS, GS and kernel GS bases, LSTAR and the address-space root equal the
\* values they had immediately before enter_guest, whatever those were.
C1_RoundTrip ==
    \A c \in CPUS : pc[c] = "intr_ret" => NativeRegs(cpu[c]) = hist[c].pre

\* C1, what the code does: every register of the round trip but ss is
\* restored; ss is loaded with __KERNEL_DS whatever it was before enter_guest.
C1_RoundTripButSs ==
    \A c \in CPUS :
        pc[c] = "intr_ret" =>
            /\ [NativeRegs(cpu[c]) EXCEPT !.ss = 0] = [hist[c].pre EXCEPT !.ss = 0]
            /\ cpu[c].ss = KERNEL_DS

\* C2: enter_guest returns exactly when the dispatcher's outcome is not
\* resume-guest and then returns that outcome (done or a negative error); it
\* loops back exactly when the outcome is resume-guest, which only a page fault
\* with the USER bit, a translated address and successful probes yields.
C2_ReturnOrResume ==
    [][\A c \in CPUS :
        Dispatches(c) =>
            LET o == hist'[c].disp.outcome
                env == hist'[c].disp.env
                g == ga[arg[c]]
            IN  /\ (o # KKM_KONTEXT_FAULT_PROCESS_DONE) <=> (pc'[c] = "idle")
                /\ (o = KKM_KONTEXT_FAULT_PROCESS_DONE) <=> (pc'[c] = "begin")
                /\ pc'[c] = "idle" => ret_val'[c] = o /\ o <= 0
                /\ pc'[c] = "begin" => arg'[c] = arg[c] /\ ret_val'[c] = ret_val[c]
                /\ o = KKM_KONTEXT_FAULT_PROCESS_DONE =>
                      /\ g.kkm_intr_no = X86_TRAP_PF
                      /\ (g.trap_error \div 4) % 2 = 1
                      /\ kkm_guest_va_to_monitor_va(mem_slot, g.sregs_cr2).ret_val
                      /\ env.rd_ok
                      /\ (g.trap_error \div 2) % 2 = 1 => env.wr_ok]_vars

C2_Witness ==
    \E c \in CPUS :
        /\ pc[c] = "idle" /\ hist[c].loops > 0 /\ hist[c].disp.n > 1
        /\ ret_val[c] = -EFAULT

\* C3: for every vector other than general-protection and page-fault, dispatch
\* returns -EOPNOTSUPP, leaves the exit reason unknown, and enter_guest returns
\* that error without re-entering the guest.
C3_UnsupportedTrap ==
    [][\A c \in CPUS :
        (Dispatches(c) /\ ga[arg[c]].kkm_intr_no \notin {X86_TRAP_GP, X86_TRAP_PF}) =>
            /\ hist'[c].disp.outcome = -95
            /\ hist'[c].disp.acc = <<>>
            /\ kkm_run'[arg[c]].exit_reason = KKM_EXIT_UNKNOWN
            /\ pc'[c] = "idle"
            /\ ret_val'[c] = -95]_vars

\* an unsupported vector trapped after an earlier I/O exit of the same kontext
C3_Witness ==
    \E c \in CPUS :
        /\ pc[c] = "idle" /\ hist[c].disp.n > 0
        /\ ga[hist[c].entered].kkm_intr_no = 255
        /\ ret_val[c] = -EOPNOTSUPP
        /\ kkm_run[hist[c].entered].io_count = 1
        /\ kkm_run[hist[c].entered].exit_reason = KKM_EXIT_UNKNOWN

\* a general-protection trap whose instruction pointer translates and whose
\* instruction byte was read
GpDecoded(c) ==
    /\ Dispatches(c)
    /\ ga[arg[c]].kkm_intr_no = X86_TRAP_GP
    /\ kkm_guest_va_to_monitor_va(mem_slot, ga[arg[c]].trap_rip).ret_val
    /\ hist'[c].disp.env.rd_ok

\* C4: for a general-protection trap whose instruction pointer translates and
\* whose first byte is the port-write opcode, for every rax and rdx: the exit
\* record is I/O, out, size 4, count 1, port = rdx mod 2^16, the data page holds
\* rax mod 2^32, the guest rip is the trap-time rip plus 1, the outcome is done.
C4_PortWrite ==
    [][\A c \in CPUS :
        (GpDecoded(c) /\ hist'[c].disp.env.rd_byte = KKM_OUT_OPCODE) =>
            LET k == arg[c]
                g == ga[k]
            IN  /\ kkm_run'[k].exit_reason = KKM_EXIT_IO
                /\ kkm_run'[k].io_direction = KKM_EXIT_IO_OUT
                /\ kkm_run'[k].io_size = 4
                /\ kkm_run'[k].io_count = 1
                /\ kkm_run'[k].io_port = g.regs_rdx[3] % 65536
                /\ io_data'[k] = <<0, g.regs_rax[2] % 4096, g.regs_rax[3]>>
                /\ ga'[k].regs_rip = U64Add(g.trap_rip, U64One)
                /\ hist'[c].disp.outcome = 0
                /\ pc'[c] = "idle"
                /\ ret_val'[c] = 0]_vars

\* rax and rdx wider than the staged data and the port
C4_Witness ==
    \E c \in CPUS :
        /\ pc[c] = "idle" /\ hist[c].disp.n > 0
        /\ kkm_run[hist[c].entered].exit_reason = KKM_EXIT_IO
        /\ ga[hist[c].entered].regs_rax = U64(7, 4097, 4660)
        /\ io_data[hist[c].entered] = U64(0, 1, 4660)
        /\ kkm_run[hist[c].entered].io_port = 1016
        /\ ga[hist[c].entered].regs_rip = KKM_GUEST_MEM_TOP_VA

\* C5: for a page fault with the USER bit whose address translates and whose
\* accesses succeed, the emulator reads exactly one byte at the translated
\* address, writes that same byte back iff the WRITE bit is set, and returns
\* guest-resumable in both cases.
C5_PageFaultProbe ==
    [][\A c \in CPUS :
        LET k == arg[c]
            g == ga[k]
            t == kkm_guest_va_to_monitor_va(mem_slot, g.sregs_cr2)
            env == hist'[c].disp.env
            write == (g.trap_error \div 2) % 2 = 1
            rd == [op |-> "read", addr |-> t.monitor_va, ok |-> TRUE, byte |-> env.rd_byte]
            wr == [op |-> "write", addr |-> t.monitor_va, ok |-> TRUE, byte |-> env.rd_byte]
        IN  ( /\ Dispatches(c)
              /\ g.kkm_intr_no = X86_TRAP_PF
              /\ (g.trap_error \div 4) % 2 = 1
              /\ t.ret_val
              /\ env.rd_ok
              /\ write => env.wr_ok ) =>
                /\ hist'[c].disp.acc = IF write THEN <<rd, wr>> ELSE <<rd>>
                /\ hist'[c].disp.outcome = KKM_KONTEXT_FAULT_PROCESS_DONE
                /\ pc'[c] = "begin"]_vars

\* a user-mode write fault through the VDSO slot was probed and resumed
C5_Witness ==
    \E c \in CPUS :
        /\ pc[c] = "begin" /\ hist[c].loops > 0
        /\ ga[arg[c]].trap_error = 6
        /\ Len(hist[c].disp.acc) = 2
        /\ hist[c].disp.acc[2].op = "write"
        /\ hist[c].disp.acc[2].addr = U64(32, 7, 0)

\* C6 as stated: an instruction byte that is not the port-write opcode makes the
\* general-protection emulator yield a failure outcome rather than done.
C6_MismatchFails ==
    [][\A c \in CPUS :
        (GpDecoded(c) /\ hist'[c].disp.env.rd_byte # KKM_OUT_OPCODE) =>
            hist'[c].disp.outcome < 0]_vars

\* C6 amended: on an instruction byte that is not the port-write opcode the
\* emulator yields the normal done outcome with the exit reason unknown;
\* enter_guest returns done to its caller and does not resume the guest.
C6_MismatchIsDone ==
    [][\A c \in CPUS :
        (GpDecoded(c) /\ hist'[c].disp.env.rd_byte # KKM_OUT_OPCODE) =>
            /\ hist'[c].disp.outcome = 0
            /\ kkm_run'[arg[c]].exit_reason = KKM_EXIT_UNKNOWN
            /\ pc'[c] = "idle"
            /\ ret_val'[c] = 0]_vars

C6_Witness ==
    \E c \in CPUS :
        /\ pc[c] = "idle" /\ hist[c].disp.n > 0
        /\ ga[hist[c].entered].kkm_intr_no = X86_TRAP_GP
        /\ ga[hist[c].entered].instruction_decode0 = 144
        /\ hist[c].disp.env.rd_ok
        /\ ret_val[c] = 0

\* C7: control passes to the guest payload only if both redzone sentinels were
\* verified intact during that same enter_payload; with either sentinel
\* corrupted at entry, enter_payload aborts and the payload is not entered.
C7_RedzoneGate ==
    [][\A c \in CPUS :
        LET g == ga[kx_area[c]] IN
        /\ (cpu[c].domain # "GUEST_PAYLOAD" /\ cpu'[c].domain = "GUEST_PAYLOAD") =>
              /\ pc[c] = "gk"
              /\ g.redzone_top = REDZONE_DATA /\ g.redzone_bottom = REDZONE_DATA
              /\ hist'[c].verified
        /\ ( /\ pc[c] = "gk" /\ pc'[c] # "gk"
             /\ g.redzone_top # REDZONE_DATA \/ g.redzone_bottom # REDZONE_DATA ) =>
              /\ pc'[c] = "aborted"
              /\ cpu'[c].domain = "GUEST_KERNEL"
              /\ ~hist'[c].verified]_vars

\* a resume iteration found the bottom sentinel corrupted and aborted
C7_Witness ==
    \E c \in CPUS :
        /\ pc[c] = "aborted"
        /\ hist[c].loops > 0
        /\ ga[arg[c]].redzone_bottom # REDZONE_DATA
        /\ ga[arg[c]].redzone_top = REDZONE_DATA

\* C8: with several cores each running enter_guest on a kontext of its own,
\* the registration of core c is the kontext of the most recent enter_guest on
\* c, return_to_host on c obtains that kontext, and reads and writes only its
\* guest area and saved host state and core c's registers.
C8_PerCoreKontext ==
    [][\A c \in CPUS :
        /\ pc'[c] \in {"save_cr", "change_as", "save_seg", "gk", "payload", "trap"} =>
              current_kontext'[c] = hist'[c].entered /\ arg'[c] = hist'[c].entered
        /\ (pc[c] = "trap" /\ pc'[c] # "trap") =>
              LET k == hist[c].entered IN
              /\ hist'[c].rth = k
              /\ \A j \in KONTEXTS \ {k} : ga'[j] = ga[j]
              /\ kontext' = kontext
              /\ \A d \in CPUS \ {c} : cpu'[d] = cpu[d]
              /\ cpu'[c].cr3 = kontext[k].native_kernel_cr3
              /\ cpu'[c].gs_base = kontext[k].native_kernel_gs_base
              /\ cpu'[c].sp0 = ga[k].native_save_tss_sp0
              /\ ga'[k].regs_rip = ga[k].trap_rip
              /\ NativeRegs(cpu'[c]) = [hist[c].pre EXCEPT !.ss = KERNEL_DS]]_vars

\* two cores are inside enter_guest at once and one of them has returned to
\* the host from a trap
C8_Witness ==
    \E c, d \in CPUS :
        /\ c # d
        /\ pc[c] = "intr_ret" /\ hist[c].rth = hist[c].entered
        /\ pc[d] \in {"payload", "trap"}
        /\ current_kontext[c] # current_kontext[d]
        /\ c < d /\ current_kontext[c] > current_kontext[d]

\* C9: every guest virtual address a with 2 MiB <= a < 512 GiB translates to
\* BASE + a, whatever the memory-slot table holds.
C9_LowWindow ==
    (tr.pc = "done" /\ tr.va[1] = 0 /\ tr.va[2] >= 2 /\ tr.va[2] < 524288) =>
        /\ tr.ret_val
        /\ tr.monitor_va = <<16, tr.va[2], tr.va[3]>>

C9_Witness ==
    /\ tr.pc = "done" /\ tr.va = U64(0, 524287, Limb - 1)
    /\ tr.ret_val /\ ~mem_slot.used

\* C10: every a with high-window-start <= a < high-window-top, where the top is
\* 128 TiB - 2 MiB and the start is the top - (512 GiB - 2 MiB), translates to
\* BASE + (a - high-window-start), whatever the memory-slot table holds.
C10_HighWindow ==
    (tr.pc = "done" /\ tr.va[1] = 127 /\ tr.va[2] >= 524288 /\ tr.va[2] < 1048574) =>
        /\ tr.ret_val
        /\ tr.monitor_va = <<16, tr.va[2] - 524288, tr.va[3]>>

C10_Witness ==
    /\ tr.pc = "done" /\ tr.va = U64(127, 1048573, Limb - 1)
    /\ tr.ret_val /\ tr.monitor_va = U64(16, 524285, Limb - 1) /\ mem_slot.used

\* the offset of a above vvar_base = 128 TiB - 1 MiB, for a at or above it
VvarOffset(a) == IF a[1] = 127 THEN <<0, 0, a[3]>> ELSE <<a[1] - 128, a[2] + 1, a[3]>>

\* a lies in [vvar_base, vvar_base + s)
InVvarRange(a, s) ==
    /\ a[1] > 127 \/ (a[1] = 127 /\ a[2] = 1048575)
    /\ U64Lt(VvarOffset(a), s)

\* C11: for the reserved VDSO slot with base b and size s: when the slot is
\* marked valid, every a with vvar_base <= a < vvar_base + s translates to
\* b + (a - vvar_base); when it is marked invalid, translation fails for every
\* a in that range.
C11_VdsoSlot ==
    (tr.pc = "done" /\ InVvarRange(tr.va, mem_slot.memory_size)) =>
        IF mem_slot.used
        THEN /\ tr.ret_val
             /\ tr.monitor_va = U64Add(mem_slot.userspace_addr, VvarOffset(tr.va))
        ELSE ~tr.ret_val

\* the last byte of a 2 MiB slot, with carries into both upper limbs of b
C11_Witness ==
    /\ tr.pc = "done" /\ mem_slot.used
    /\ mem_slot.memory_size = U64(0, 2, 0)
    /\ tr.va = U64(128, 0, Limb - 1)
    /\ tr.ret_val /\ tr.monitor_va = U64(34, 1, 4095)

\* a lies outside the low window, the high window and the reserved slot's
\* range (which is empty when the slot is marked invalid)
OutsideAllRanges(a, slot) ==
    /\ \/ U64Lt(a, <<0, 2, 0>>)
       \/ U64Ge(a, <<0, 524288, 0>>) /\ U64Lt(a, <<127, 524288, 0>>)
       \/ U64Ge(a, <<127, 1048574, 0>>)
    /\ ~(slot.used /\ InVvarRange(a, slot.memory_size))

\* C12: for every guest virtual address outside all three recognized ranges,
\* translate fails and reports 0 as the host address, the translation made
\* again by the emulator fails the same way, and the emulator of that trap
\* makes no memory read or write and changes nothing.
C12_OutsideFails ==
    (tr.pc # "call" /\ OutsideAllRanges(tr.va, mem_slot)) =>
        /\ ~tr.ret_val
        /\ tr.monitor_va = <<0, 0, 0>>
        /\ tr.pc = "emulated" =>
              /\ tr.emu.ret_val = -14
              /\ tr.emu.acc = <<>>
              /\ ~tr.emu.touched

\* a user write page fault at the first byte past a valid three-page slot
C12_Witness ==
    /\ tr.pc = "emulated" /\ mem_slot.used
    /\ mem_slot.memory_size = U64(0, 0, 3 * PAGE_SIZE)
    /\ tr.va = U64(127, 1048575, 12288)
    /\ tr.emu.vec = X86_TRAP_PF /\ tr.emu.error = 6 /\ tr.emu.env.rd_ok
    /\ tr.emu.ret_val = -EFAULT /\ tr.emu.acc = <<>>

SnapshotComplete(kx, r) ==
    /\ kx.native_kernel_cr3 = r.cr3 /\ kx.native_kernel_cr4 = r.cr4
    /\ kx.native_kernel_ds = r.ds /\ kx.native_kernel_es = r.es
    /\ kx.native_kernel_fs = r.fs /\ kx.native_kernel_gs = r.gs
    /\ kx.native_kernel_ss = r.ss
    /\ kx.native_kernel_fs_base = r.fs_base /\ kx.native_kernel_gs_base = r.gs_base
    /\ kx.native_kernel_gs_kern_base = r.kernel_gs_base
    /\ kx.native_kernel_entry_syscall_64 = r.lstar
    /\ kx.native_debug_registers = r.dr

C15_RegistrationOrder ==
    [][\A c \in CPUS :
        /\ current_kontext'[c] # current_kontext[c] => pc[c] = "register"
        /\ (pc[c] = "register" /\ pc'[c] # "register") =>
              /\ ~cpu[c].irq
              /\ cpu[c].cr3 = hist[c].pre.cr3
              /\ cpu[c].stack = "native"
              /\ current_kontext'[c] = arg[c]
        /\ (cpu[c].cr3 = hist[c].pre.cr3 /\ cpu'[c].cr3 # cpu[c].cr3) =>
              current_kontext[c] = arg[c] /\ ~cpu[c].irq
        /\ (cpu[c].stack = "native" /\ cpu'[c].stack # "native") =>
              current_kontext[c] = arg[c] /\ ~cpu[c].irq]_vars

\* a core has registered again on a resume iteration of its second
\* enter_guest
C15_Witness ==
    \E c \in CPUS :
        /\ pc[c] = "save_cr" /\ hist[c].loops > 0
        /\ current_kontext[c] = arg[c] /\ ~cpu[c].irq
        /\ nentries = MaxEntries
        /\ \A d \in CPUS \ {c} : current_kontext[d] = NULL

\* core c moves from position a to position b
Moves(c, a, b) == pc[c] = a /\ pc'[c] = b

\* C16: between two consecutive periods of a core in the guest-payload domain
\* for the same kontext the full cycle occurs in order: return_to_host
\* restores native state, the dispatcher runs, enter_guest binds the guest
\* area, re-registers the kontext and re-snapshots host state, enter_payload
\* re-verifies the redzones; the payload is never resumed from the trap path.
C16_FullCycle ==
    [][\A c \in CPUS :
        LET k == arg[c] IN
        /\ pc'[c] # pc[c] =>
              \/ Moves(c, "idle", "begin")
              \/ Moves(c, "payload", "trap")
              \/ Moves(c, "trap", "intr_ret")
                    /\ cpu'[c].domain = "HOST_KERNEL" /\ cpu'[c].stack = "native"
                    /\ cpu'[c].cr3 = hist[c].pre.cr3
                    /\ [NativeRegs(cpu'[c]) EXCEPT !.ss = 0] = [hist[c].pre EXCEPT !.ss = 0]
              \/ Moves(c, "intr_ret", "begin") /\ hist'[c].disp.n = hist[c].disp.n + 1
              \/ Moves(c, "intr_ret", "idle") /\ hist'[c].disp.n = hist[c].disp.n + 1
              \/ Moves(c, "begin", "register") /\ kx_area'[c] = k
              \/ Moves(c, "register", "save_cr") /\ current_kontext'[c] = k
              \/ Moves(c, "save_cr", "change_as")
                    /\ kontext'[k].native_kernel_cr3 = cpu[c].cr3
              \/ Moves(c, "change_as", "save_seg")
              \/ Moves(c, "save_seg", "gk")
                    /\ kontext'[k] = SavedSegments(kontext[k], cpu[c])
              \/ Moves(c, "gk", "payload")
                    /\ ga[k].redzone_top = REDZONE_DATA
                    /\ ga[k].redzone_bottom = REDZONE_DATA
                    /\ hist'[c].verified
              \/ Moves(c, "gk", "aborted")
        /\ (cpu'[c].domain = "GUEST_PAYLOAD" /\ cpu[c].domain # "GUEST_PAYLOAD") =>
              /\ Moves(c, "gk", "payload")
              /\ kx_area[c] = k /\ current_kontext[c] = k
              /\ cpu[c].stack = "guest_area"]_vars

\* the payload runs for the third time within one enter_guest
C16_Witness ==
    \E c \in CPUS :
        /\ pc[c] = "payload" /\ hist[c].loops = MaxTraps
        /\ cpu[c].domain = "GUEST_PAYLOAD" /\ hist[c].verified

AccessFails(c) ==
    LET g == ga[arg[c]]
        env == hist'[c].disp.env
    IN  /\ Dispatches(c)
        /\ \/ /\ g.kkm_intr_no = 13
               /\ \/ ~kkm_guest_va_to_monitor_va(mem_slot, g.trap_rip).ret_val
                  \/ ~env.rd_ok
           \/ /\ g.kkm_intr_no = 14
               /\ \/ ~kkm_guest_va_to_monitor_va(mem_slot, g.sregs_cr2).ret_val
                  \/ /\ (g.trap_error \div 4) % 2 = 1
                     /\ ~env.rd_ok \/ ((g.trap_error \div 2) % 2 = 1 /\ ~env.wr_ok)

\* C18: when the general-protection emulator cannot translate the rip or read
\* the instruction byte, and when the page-fault emulator cannot translate the
\* address or its read or write-back fails, the outcome is -EFAULT, never
\* resume-guest, the exit reason stays unknown, no I/O data is staged and the
\* guest instruction pointer is not advanced.
C18_AccessFailure ==
    [][\A c \in CPUS :
        AccessFails(c) =>
            LET k == arg[c] IN
            /\ hist'[c].disp.outcome = -14
            /\ kkm_run'[k] = [kkm_run[k] EXCEPT !.exit_reason = 0]
            /\ io_data'[k] = io_data[k]
            /\ ga'[k].regs_rip = ga[k].trap_rip
            /\ pc'[c] = "idle"
            /\ ret_val'[c] = -14]_vars

\* the write-back of a user write fault failed, after an earlier port-write
\* exit of the same kontext had staged data
C18_Witness ==
    \E c \in CPUS :
        /\ pc[c] = "idle" /\ ret_val[c] = -EFAULT
        /\ ga[hist[c].entered].kkm_intr_no = X86_TRAP_PF
        /\ Len(hist[c].disp.acc) = 2 /\ ~hist[c].disp.acc[2].ok
        /\ kkm_run[hist[c].entered].io_count = 1
        /\ kkm_run[hist[c].entered].exit_reason = KKM_EXIT_UNKNOWN
        /\ io_data[hist[c].entered] # U64Zero

\* C19: when the general-protection emulator reads an instruction byte that
\* is not the expected opcode the fault is left unresolved: the outcome is
\* done, the exit reason is unknown, no I/O data is staged and the guest
\* instruction pointer stays at its trap-time value.
C19_MismatchUnresolved ==
    [][\A c \in CPUS :
        (GpDecoded(c) /\ hist'[c].disp.env.rd_byte # 239) =>
            LET k == arg[c] IN
            /\ hist'[c].disp.outcome = 0
            /\ kkm_run'[k] = [kkm_run[k] EXCEPT !.exit_reason = 0]
            /\ io_data'[k] = io_data[k]
            /\ ga'[k].regs_rip = ga[k].trap_rip
            /\ ga'[k] = [ga[k] EXCEPT !.instruction_decode0 = hist'[c].disp.env.rd_byte]]_vars

\* a mismatch at the last byte of the high window, after an earlier
\* port-write exit of the same kontext had staged data
C19_Witness ==
    \E c \in CPUS :
        /\ pc[c] = "idle" /\ hist[c].disp.n > 0 /\ ret_val[c] = 0
        /\ ga[hist[c].entered].kkm_intr_no = X86_TRAP_GP
        /\ hist[c].disp.env.rd_ok /\ hist[c].disp.env.rd_byte = 144
        /\ ga[hist[c].entered].regs_rip = U64(127, 1048573, Limb - 1)
        /\ kkm_run[hist[c].entered].exit_reason = KKM_EXIT_UNKNOWN
        /\ kkm_run[hist[c].entered].io_count = 1
        /\ io_data[hist[c].entered] = U64(0, 4095, Limb - 1)

\* C20: for a page fault whose error code has the USER bit clear and whose
\* address translates, the emulator makes no memory read or write, changes no
\* guest-area state, and the outcome is done, so enter_guest returns to the
\* caller instead of resuming.
C20_SupervisorFault ==
    [][\A c \in CPUS :
        LET k == arg[c]
            g == ga[k]
        IN  ( /\ Dispatches(c)
              /\ g.kkm_intr_no = 14
              /\ (g.trap_error \div 4) % 2 = 0
              /\ kkm_guest_va_to_monitor_va(mem_slot, g.sregs_cr2).ret_val ) =>
                /\ hist'[c].disp.acc = <<>>
                /\ ga'[k] = g
                /\ io_data'[k] = io_data[k]
                /\ hist'[c].disp.outcome = 0
                /\ pc'[c] = "idle"
                /\ ret_val'[c] = 0]_vars

\* a supervisor write fault inside the valid reserved slot returned done
C20_Witness ==
    \E c \in CPUS :
        /\ pc[c] = "idle" /\ hist[c].disp.n > 0 /\ ret_val[c] = 0
        /\ ga[hist[c].entered].kkm_intr_no = X86_TRAP_PF
        /\ ga[hist[c].entered].trap_error = 2
        /\ ga[hist[c].entered].sregs_cr2 = KKM_GUEST_VVAR_VDSO_BASE_VA
        /\ mem_slot.used
        /\ hist[c].disp.acc = <<>>
        /\ hist[c].disp.env.rd_ok /\ hist[c].disp.env.wr_ok

\* C21: after return_to_host the privileged stack pointers sp0, sp1, sp2
\* equal the values the preceding enter_payload recorded before it installed
\* the guest-area stack, and the active interrupt-table descriptor is the
\* native one; this holds after every trap of any sequence of entries and
\* resumes.
C21_StackAndIdtRestored ==
    [][\A c \in CPUS :
        /\ Moves(c, "gk", "payload") =>
              /\ hist'[c].tss = <<cpu[c].sp0, cpu[c].sp1, cpu[c].sp2>>
              /\ cpu[c].sp0 # 650 /\ cpu'[c].sp0 = 650
              /\ cpu[c].idtr = 300 /\ cpu'[c].idtr = 301
        /\ Moves(c, "trap", "intr_ret") =>
              /\ <<cpu'[c].sp0, cpu'[c].sp1, cpu'[c].sp2>> = hist[c].tss
              /\ cpu'[c].idtr = 300]_vars

\* the second trap of one enter_guest has returned to the host
C21_Witness ==
    \E c \in CPUS :
        /\ pc[c] = "intr_ret" /\ hist[c].loops > 0
        /\ hist[c].tss = <<600 + c, 610 + c, 620 + c>>
        /\ cpu[c].sp0 = 600 + c
        /\ cpu[c].idtr = NativeIdtDesc

\* kontext k's cleanup has run on an initialized kontext
TearsDown(k) ==
    /\ mm'.n # mm.n /\ mm'.op = "kontext_cleanup" /\ mm'.who = k
    /\ mm.kx[k].guest_area_page # NULL

\* C22: kontext teardown frees the whole guest-area region: after a successful
\* initialization followed by cleanup the number of pages released equals the
\* number of pages allocated for the guest area, and the guest-area references
\* are cleared so that a second cleanup releases nothing.
C22_TeardownFreesAll ==
    [][\A k \in KONTEXTS :
        /\ TearsDown(k) =>
              /\ mm'.released = 2
              /\ \A f \in mm.kx[k].guest_area..(mm.kx[k].guest_area + 1) : f \notin mm'.heap
              /\ mm'.kx[k].guest_area_page = 0 /\ mm'.kx[k].guest_area = 0
        /\ ( /\ mm'.n # mm.n /\ mm'.op = "kontext_cleanup" /\ mm'.who = k
             /\ mm.kx[k].guest_area_page = NULL ) =>
              mm'.released = 0 /\ mm'.heap = mm.heap]_vars

\* C22, what the code does: the cleanup releases the first page of the guest
\* area only and clears the references, so the second page stays held and a
\* second cleanup releases nothing.
C22_TeardownFreesOne ==
    [][\A k \in KONTEXTS :
        /\ TearsDown(k) =>
              /\ mm'.released = 1
              /\ mm'.heap = mm.heap \ {mm.kx[k].guest_area}
              /\ mm.kx[k].guest_area + 1 \in mm'.heap
              /\ mm'.kx[k].guest_area_page = 0 /\ mm'.kx[k].guest_area = 0
        /\ ( /\ mm'.n # mm.n /\ mm'.op = "kontext_cleanup" /\ mm'.who = k
             /\ mm.kx[k].guest_area_page = NULL ) =>
              mm'.released = 0 /\ mm'.heap = mm.heap]_vars

\* C23: whenever a core executes in the guest-payload domain, the active
\* interrupt-table descriptor is the guest descriptor, sp0 points into the
\* guest area of that core's current kontext as seen through the per-core
\* window, and the syscall target is the relocated guest syscall trampoline;
\* none of the three is the native value.
C23_PayloadEnvironment ==
    \A c \in CPUS :
        cpu[c].domain = "GUEST_PAYLOAD" =>
            /\ cpu[c].idtr = 301 /\ cpu[c].idtr = ga[kx_area[c]].guest_idt_desc
            /\ cpu[c].idtr # ga[kx_area[c]].native_idt_desc
            /\ cpu[c].sp0 = 650 /\ cpu[c].sp0 # hist[c].tss[1]
            /\ kx_area[c] = current_kontext[c] /\ current_kontext[c] = arg[c]
            /\ cpu[c].lstar = 450 /\ cpu[c].lstar # hist[c].pre.lstar
            /\ cpu[c].lstar # kontext[arg[c]].native_kernel_entry_syscall_64

\* two cores run the payloads of two kontexts, one of them after a resume
C23_Witness ==
    \E c, d \in CPUS :
        /\ c # d
        /\ cpu[c].domain = "GUEST_PAYLOAD" /\ cpu[d].domain = "GUEST_PAYLOAD"
        /\ kx_area[c] # kx_area[d]
        /\ hist[c].loops > 0

\* C24: the exit record never carries a stale I/O exit: after any sequence of
\* traps the exit reason left by a dispatch, which is what the caller sees
\* when enter_guest returns, is I/O if and only if the trap just dispatched
\* was a general-protection fault whose rip translated and whose instruction
\* byte was read and matched the port-write opcode; otherwise it is unknown,
\* and nothing but a dispatch changes the exit record.
C24_NoStaleIoExit ==
    [][/\ \A c \in CPUS :
            Dispatches(c) =>
                LET k == arg[c]
                    io == /\ ga[k].kkm_intr_no = 13
                          /\ kkm_guest_va_to_monitor_va(mem_slot, ga[k].trap_rip).ret_val
                          /\ hist'[c].disp.env.rd_ok
                          /\ hist'[c].disp.env.rd_byte = 239
                IN  /\ kkm_run'[k].exit_reason = 2 <=> io
                    /\ kkm_run'[k].exit_reason = 0 <=> ~io
                    /\ pc'[c] = "begin" => kkm_run'[k].exit_reason = 0
       /\ \A k \in KONTEXTS :
            kkm_run'[k] # kkm_run[k] => \E c \in CPUS : Dispatches(c) /\ arg[c] = k]_vars

\* enter_guest returned from a general-protection trap whose rip does not
\* translate, after an earlier port-write exit of the same kontext
C24_Witness ==
    \E c \in CPUS :
        /\ pc[c] = "idle" /\ hist[c].disp.n > 0 /\ ret_val[c] = -EFAULT
        /\ ga[hist[c].entered].kkm_intr_no = X86_TRAP_GP
        /\ ga[hist[c].entered].trap_rip = U64(0, 0, 4096)
        /\ kkm_run[hist[c].entered].io_count = 1
        /\ kkm_run[hist[c].entered].io_port = 65535
        /\ kkm_run[hist[c].entered].exit_reason = KKM_EXIT_UNKNOWN

\* C25: the core's preemption-disable depth is balanced across enter_guest:
\* every get_cpu() taken in enter_guest, enter_payload and return_to_host is
\* released before enter_guest returns, so after any number of resume
\* iterations the depth on return equals the depth on entry.
C25_DepthBalanced ==
    \A c \in CPUS :
        pc[c] = "idle" /\ hist[c].disp.n > 0 => cpu[c].preempt = hist[c].depth

\* C25, what the code does: no get_cpu() is released; every iteration of
\* enter_guest leaves the depth three higher, one for each of enter_guest,
\* enter_payload and return_to_host.
C25_DepthGrows ==
    \A c \in CPUS :
        pc[c] = "idle" /\ hist[c].disp.n > 0 =>
            cpu[c].preempt = hist[c].depth + 3 * hist[c].disp.n

====
